---- MODULE Spec2Model ----
(***************************************************************************)
(* A model of the vfs package: the in-memory tree backend (MemNode and     *)
(* memFile), the path helpers of Go's "path" package that it relies on,    *)
(* and the subtree wrapper of vfs.go.                                      *)
(*                                                                         *)
(* Strings.  A Go string is modelled by the sequence of its '/'-separated  *)
(* segments, i.e. by what strings.Split(s, "/") returns: "" is <<"">>,     *)
(* "/" is <<"", "">>, "/a/b" is <<"", "a", "b">>, "a/" is <<"a", "">>.     *)
(* Concatenating s + "/" + t is then s \o t, and "/" + s is <<"">> \o s.   *)
(* A string without '/' (a node name, a path component) is kept as a TLA+  *)
(* string; the one-character string "/" that path.Base can return is the   *)
(* TLA+ string "/".                                                        *)
(*                                                                         *)
(* Heap.  *MemNode values are node identifiers; the heap maps each         *)
(* allocated identifier to the node's fields.  Go is garbage collected:    *)
(* a node that neither the root nor a handle refers to cannot be observed  *)
(* and is dropped from the heap at the end of every operation.  modTime is *)
(* not modelled (no operation reads it).                                   *)
(***************************************************************************)
EXTENDS Integers, Sequences, FiniteSets, TLC

VARIABLES
    nodes,   \* the heap: node identifier -> MemNode fields; node 0 is the root
    files,   \* the memFile handles handed out by Create, in creation order
    sub,     \* the subtree wrapper built by Subtree (its root string), or NoSub
    ret,     \* the last call that can change the tree or a handle, and its error
    hist,    \* per handle: the path given to Create and what ran since
    bucket,  \* the object store: key -> content of the object stored there
    log,     \* the requests the last object-store call sent to the store
    s3files, \* the s3File handles handed out by the object store's Create
    readers, \* the readers handed out by the tree backend's Open
    callers  \* two callers that share one tree: where each is in its call

s3vars == <<bucket, log, s3files>>
vars == <<nodes, files, sub, ret, hist, s3vars, readers, callers>>

----------------------------------------------------------------------------
(* Bounds of the model *)

MaxNodes == 3       \* live nodes, the root included
MaxHandles == 1     \* handles returned by Create in one run
MaxLen == 1         \* bytes buffered in one handle / copied by one Copy

Bytes == {1}
Names == {"a", "b"}
Root == 0
NilNode == -1       \* the nil *MemNode

----------------------------------------------------------------------------
(* Go's path package on segment sequences *)

RECURSIVE SeqsUpTo(_, _)
SeqsUpTo(S, n) ==
    IF n = 0 THEN {<<>>}
    ELSE {<<>>} \cup {<<x>> \o s : x \in S, s \in SeqsUpTo(S, n - 1)}

Last(s) == s[Len(s)]
Front(s) == SubSeq(s, 1, Len(s) - 1)

\* "/" + path
Slash(path) == <<"">> \o path

\* the string begins with '/'
Rooted(path) == Len(path) >= 2 /\ path[1] = ""

\* path.Clean's pass over the components: "." and empty components are
\* skipped, ".." backs up over the previous component, is dropped at the
\* root of a rooted path and kept at the start of a relative one.
RECURSIVE CleanFrom(_, _, _)
CleanFrom(rest, out, rooted) ==
    IF rest = <<>> THEN out
    ELSE CleanFrom(Tail(rest),
                   IF Head(rest) = "" \/ Head(rest) = "." THEN out
                   ELSE IF Head(rest) # ".." THEN Append(out, Head(rest))
                   ELSE IF out # <<>> /\ Last(out) # ".." THEN Front(out)
                   ELSE IF rooted THEN out
                   ELSE Append(out, ".."),
                   rooted)

\* path.Clean
Rebuild(out, rooted) ==
    IF rooted
    THEN IF out = <<>> THEN <<"", "">> ELSE <<"">> \o out
    ELSE IF out = <<>> THEN <<".">> ELSE out

Clean(path) == Rebuild(CleanFrom(path, <<>>, Rooted(path)), Rooted(path))

\* path.Clean("/" + path): the normalized form every operation works on
Norm(path) == Clean(Slash(path))

RECURSIVE StripSlashes(_)
StripSlashes(path) ==
    IF path # <<>> /\ Last(path) = "" THEN StripSlashes(Front(path)) ELSE path

\* path.Base
Base(path) ==
    IF path = <<"">> THEN "."
    ELSE IF StripSlashes(path) = <<>> THEN "/"
    ELSE Last(StripSlashes(path))

\* path.Dir
PathDir(path) ==
    IF Len(path) = 1 THEN Clean(<<"">>)
    ELSE Clean(Append(Front(path), ""))

\* path.Join / filepath.Join of two non-empty elements
Join(a, b) == Clean(a \o b)

\* the string a node name stands for, as a segment sequence
Str(name) == IF name = "/" THEN <<"", "">> ELSE <<name>>

----------------------------------------------------------------------------
(* Errors *)

ErrNoFile == "ErrNoFile"         \* vfs.ErrNoFile, the not-found sentinel
ErrClosed == "ErrClosed"         \* os.ErrClosed, "file already closed"
ErrNoParent == "ErrNoParent"     \* fmt.Errorf("No parent directory ...")
ErrNotDir == "ErrNotDir"         \* fmt.Errorf("Path '%s' is not a directory")
ErrPanic == "ErrPanic"           \* a nil *MemNode was dereferenced

Nil == [op |-> "", path |-> <<>>, cause |-> "nil"]
PathError(op, path, cause) == [op |-> op, path |-> path, cause |-> cause]
BareError(cause) == [op |-> "", path |-> <<>>, cause |-> cause]

----------------------------------------------------------------------------
(* MemNode: the heap and path resolution *)

MemNode(name, isDir, content, children) ==
    [name |-> name, isDir |-> isDir, content |-> content, children |-> children]

\* vfs.Dir(name) without children, and the node memFile.Close builds
Dir(name) == MemNode(name, TRUE, <<>>, <<>>)
File(name, content) == MemNode(name, FALSE, content, <<>>)

\* Mem(): the fabricated root, with an empty name
Mem == (Root :> Dir(""))

\* the identifier the next allocation gets: the least one not in use
NewId(n) ==
    CHOOSE i \in 0 .. Cardinality(DOMAIN n) :
        i \notin DOMAIN n /\ \A j \in 0 .. (i - 1) : j \in DOMAIN n

\* the model's bound on the heap: an allocating call runs while fewer than
\* max nodes are live
CanAlloc(n, max) == Cardinality(DOMAIN n) < max

\* n with node id added as the last child of dir
AppendChild(n, dir, id, node) ==
    [i \in DOMAIN n \cup {id} |->
        IF i = id THEN node
        ELSE IF i = dir THEN [n[i] EXCEPT !.children = Append(@, id)]
        ELSE n[i]]

\* the nodes in the order a depth-first walk from the identifiers in todo
\* meets them, after those already in seen
RECURSIVE Visit(_, _, _)
Visit(n, seen, todo) ==
    IF todo = <<>> THEN seen
    ELSE IF \E k \in 1 .. Len(seen) : seen[k] = Head(todo)
         THEN Visit(n, seen, Tail(todo))
         ELSE Visit(n, Append(seen, Head(todo)), n[Head(todo)].children \o Tail(todo))

\* the place of identifier i in the sequence order, counted from 0
Pos(order, i) == (CHOOSE k \in 1 .. Len(order) : order[k] = i) - 1

\* n and f with the nodes listed in order renumbered by their place in it
Renumber(n, f, order) ==
    [nodes |-> [j \in 0 .. (Len(order) - 1) |->
                   [n[order[j + 1]] EXCEPT
                       !.children = [k \in 1 .. Len(@) |-> Pos(order, @[k])]]],
     files |-> [h \in 1 .. Len(f) |-> [f[h] EXCEPT !.dir = Pos(order, @)]]]

\* Garbage collection and pointer identity.  What the root or a handle can
\* still reach is kept, the rest is unobservable and dropped.  The value of
\* a pointer is not observable either: the kept nodes are renumbered in the
\* order a walk from the root, then from the handles, meets them.
Collect(n, f) ==
    Renumber(n, f, Visit(n, <<>>, <<Root>> \o [h \in 1 .. Len(f) |-> f[h].dir]))

\* the least element of a non-empty set of numbers
Least(S) == CHOOSE k \in S : \A l \in S : k <= l

\* the places among the children of mn that hold a node called name
Named(n, mn, name) ==
    {k \in 1 .. Len(n[mn].children) : n[n[mn].children[k]].name = name}

childByName(n, mn, name) ==
    IF Named(n, mn, name) = {} THEN NilNode
    ELSE n[mn].children[Least(Named(n, mn, name))]

RECURSIVE child(_, _, _)
child(n, mn, parts) ==
    IF mn = NilNode THEN NilNode
    ELSE IF Len(parts) = 0 THEN mn
    ELSE IF Len(parts) = 1 /\ parts[1] = "" THEN mn
    ELSE child(n, childByName(n, mn, parts[1]), Tail(parts))

\* clean := Clean("/" + path)[1:]; child(strings.Split(clean, "/"))
childByPath(n, path) == child(n, Root, Tail(Norm(path)))

parentNode(n, path) == childByPath(n, PathDir(Norm(path)))

\* byte-wise order of the names that can occur
NameOrder == <<"", ".", "..", "/", "a", "b", "c">>
Rank(name) == CHOOSE k \in 1 .. Len(NameOrder) : NameOrder[k] = name

\* fileInfoSorter.Less
Less(n, x, y) == Rank(n[x].name) < Rank(n[y].name)

\* one pass of sort.Sort's insertion sort: x sinks below every greater entry
RECURSIVE InsertSorted(_, _, _)
InsertSorted(n, s, x) ==
    IF s # <<>> /\ Less(n, x, Last(s))
    THEN Append(InsertSorted(n, Front(s), x), Last(s))
    ELSE Append(s, x)

RECURSIVE SortFrom(_, _, _)
SortFrom(n, done, rest) ==
    IF rest = <<>> THEN done
    ELSE SortFrom(n, InsertSorted(n, done, Head(rest)), Tail(rest))

\* sortFileInfos (sort.Sort on fewer than 12 entries is an insertion sort)
\* Readdir's list left in the order the children are stored in
sortFileInfosUnsorted(n, fis) == fis

sortFileInfos(n, fis) == SortFrom(n, <<>>, fis)

----------------------------------------------------------------------------
(* MemNode operations: each maps a heap to the heap after the call and   *)
(* the value returned.  With(x, F) names a local variable of the source: *)
(* F applied to the value x.                                             *)

With(x, F(_)) == F(x)

NoFile == [closed |-> TRUE, content |-> <<>>, dir |-> NilNode, path |-> ""]

Remove(n, p) ==
    With(Norm(p), LAMBDA path :
    With(parentNode(n, path), LAMBDA dir :
        IF dir = NilNode \/ ~n[dir].isDir
        THEN [nodes |-> n, err |-> PathError("remove", path, ErrNoParent)]
        ELSE With(SelectSeq(n[dir].children, LAMBDA c : n[c].name # Base(path)),
                  LAMBDA children :
                 IF Len(children) = Len(n[dir].children)
                 THEN [nodes |-> n, err |-> PathError("remove", path, ErrNoFile)]
                 ELSE [nodes |-> [n EXCEPT ![dir].children = children],
                       err |-> Nil])))

\* Create without the removal of the node the path names
CreateKeepsOld(n, p) ==
    With(Norm(p), LAMBDA path :
    With(childByPath(n, PathDir(path)), LAMBDA dir :
        IF dir = NilNode \/ ~n[dir].isDir
        THEN [nodes |-> n, file |-> NoFile,
              err |-> PathError("create", path, ErrNoParent)]
        ELSE [nodes |-> n,
              file |-> [closed |-> FALSE, content |-> <<>>,
                        dir |-> dir, path |-> Base(path)],
              err |-> Nil]))

\* Create that puts an empty file into the tree at once, as a disk does
CreateEager(n, p) ==
    With(Norm(p), LAMBDA path :
    With(childByPath(n, PathDir(path)), LAMBDA dir :
        IF dir = NilNode \/ ~n[dir].isDir
        THEN [nodes |-> n, file |-> NoFile,
              err |-> PathError("create", path, ErrNoParent)]
        ELSE With(Remove(n, path), LAMBDA r :
                 [nodes |-> AppendChild(r.nodes, dir, NewId(r.nodes),
                                        File(Base(path), <<>>)),
                  file |-> [closed |-> FALSE, content |-> <<>>,
                            dir |-> dir, path |-> Base(path)],
                  err |-> Nil])))

\* Create that empties the node the path names where it is, as O_TRUNC does
CreateTruncates(n, p) ==
    With(Norm(p), LAMBDA path :
    With(childByPath(n, PathDir(path)), LAMBDA dir :
        IF dir = NilNode \/ ~n[dir].isDir
        THEN [nodes |-> n, file |-> NoFile,
              err |-> PathError("create", path, ErrNoParent)]
        ELSE [nodes |-> [i \in DOMAIN n |->
                            IF i = childByPath(n, path)
                            THEN [n[i] EXCEPT !.content = <<>>] ELSE n[i]],
              file |-> [closed |-> FALSE, content |-> <<>>,
                        dir |-> dir, path |-> Base(path)],
              err |-> Nil]))

Create(n, p) ==
    With(Norm(p), LAMBDA path :
    With(childByPath(n, PathDir(path)), LAMBDA dir :
        IF dir = NilNode \/ ~n[dir].isDir
        THEN [nodes |-> n, file |-> NoFile,
              err |-> PathError("create", path, ErrNoParent)]
        ELSE With(Remove(n, path), LAMBDA r :
                 IF r.err # Nil /\ r.err.cause # ErrNoFile
                 THEN [nodes |-> r.nodes, file |-> NoFile, err |-> r.err]
                 ELSE [nodes |-> r.nodes,
                       file |-> [closed |-> FALSE, content |-> <<>>,
                                 dir |-> dir, path |-> Base(path)],
                       err |-> Nil])))

\* memFile.Write
Write(mf, p) ==
    IF mf.closed THEN [file |-> mf, err |-> BareError(ErrClosed)]
    ELSE [file |-> [mf EXCEPT !.content = @ \o p], err |-> Nil]

\* Close without the test of the closed flag
CloseUnchecked(n, mf) ==
    [nodes |-> AppendChild(n, mf.dir, NewId(n),
                           File(Base(Str(mf.path)), mf.content)),
     file |-> [mf EXCEPT !.closed = TRUE],
     err |-> Nil]

\* memFile.Close
Close(n, mf) ==
    IF mf.closed THEN [nodes |-> n, file |-> mf, err |-> BareError(ErrClosed)]
    ELSE [nodes |-> AppendChild(n, mf.dir, NewId(n),
                                File(Base(Str(mf.path)), mf.content)),
          file |-> [mf EXCEPT !.closed = TRUE],
          err |-> Nil]

\* Copy: Create, io.Copy of the source into the handle, Close
Copy(n, destPath, source) ==
    With(Create(n, destPath), LAMBDA c :
        IF c.err # Nil THEN [nodes |-> c.nodes, err |-> c.err]
        ELSE With(Close(c.nodes, Write(c.file, source).file), LAMBDA d :
                 [nodes |-> d.nodes, err |-> d.err]))

\* the rest of Move once the source's parent src and the place fileIndex of
\* the node in it are known: detach, then append to the destination's parent
MoveFile(n, src, dest, fileIndex) ==
    With([n EXCEPT ![src].children =
             SubSeq(@, 1, fileIndex - 1) \o SubSeq(@, fileIndex + 1, Len(@))],
         LAMBDA n1 :
        IF dest = NilNode THEN [nodes |-> n1, err |-> BareError(ErrPanic)]
        ELSE [nodes |-> [n1 EXCEPT ![dest].children =
                            Append(@, n[src].children[fileIndex])],
              err |-> Nil])

Move(n, srcPath, destPath) ==
    With(parentNode(n, srcPath), LAMBDA src :
        IF src = NilNode THEN [nodes |-> n, err |-> BareError(ErrPanic)]
        ELSE With(Named(n, src, Base(srcPath)), LAMBDA hits :
                 IF hits = {}
                 THEN [nodes |-> n, err |-> PathError("move", srcPath, ErrNoFile)]
                 ELSE MoveFile(n, src, parentNode(n, destPath), Least(hits))))

Stat(n, p) ==
    With(childByPath(n, Norm(p)), LAMBDA c :
        IF c = NilNode
        THEN [node |-> NilNode, err |-> PathError("stat", Norm(p), ErrNoFile)]
        ELSE [node |-> c, err |-> Nil])

Readdir(n, path) ==
    With(childByPath(n, path), LAMBDA node :
        IF node = NilNode
        THEN [infos |-> <<>>, err |-> PathError("open", path, ErrNoFile)]
        ELSE [infos |-> sortFileInfos(n, n[node].children), err |-> Nil])

Mkdir(n, path) ==
    With(parentNode(n, path), LAMBDA dir :
        IF dir = NilNode \/ ~n[dir].isDir
        THEN [nodes |-> n, err |-> PathError("mkdir", path, ErrNoParent)]
        ELSE [nodes |-> AppendChild(n, dir, NewId(n), Dir(Base(path))),
              err |-> Nil])

Open(n, p) ==
    With(childByPath(n, Norm(p)), LAMBDA c :
        IF c = NilNode
        THEN [content |-> <<>>, err |-> PathError("open", Norm(p), ErrNoFile)]
        ELSE [content |-> n[c].content, err |-> Nil])

\* what the os.FileInfo methods of a node return: Name, IsDir, Size
Info(n, id) == [name |-> n[id].name, isDir |-> n[id].isDir, size |-> Len(n[id].content)]

----------------------------------------------------------------------------
(* Inputs *)

\* the paths callers pass to the tree backend
TreePaths ==
    { <<"", "">>,            \* "/"
      <<"", "a">>,           \* "/a"
      <<"", "b">>,           \* "/b"
      <<"", "a", "b">> }     \* "/a/b"

\* the (source, destination) pairs callers pass to Move: a rename in place,
\* a move onto an existing name, into and out of a directory, and of a
\* directory into itself
MovePairs ==
    { << <<"", "a">>, <<"", "b">> >>,
      << <<"", "b">>, <<"", "a">> >>,
      << <<"", "b">>, <<"", "a", "b">> >>,
      << <<"", "a", "b">>, <<"", "b">> >>,
      << <<"", "a">>, <<"", "a", "b">> >> }

\* the byte strings written and copied
Contents == SeqsUpTo(Bytes, MaxLen)
Chunks == Contents \ {<<>>}

----------------------------------------------------------------------------
(* The calls *)

Ret(op, args, err) == [op |-> op, args |-> args, err |-> err]

NoSub == <<>>

\* bookkeeping for a handle: the normalized path it was created for, whether
\* that path resolved to a node when Create was called, and whether only
\* Writes on the handle itself ran since
Opened(n, p) ==
    [cpath |-> Norm(p), fresh |-> childByPath(n, p) = NilNode, quiet |-> TRUE]

\* some call other than a Write or Close of handle h changed or may have
\* changed the tree
Disturb(hs, h) ==
    [i \in DOMAIN hs |-> IF i = h THEN hs[i] ELSE [hs[i] EXCEPT !.quiet = FALSE]]

Init ==
    /\ nodes = Mem
    /\ files = <<>>
    /\ sub = NoSub
    /\ hist = <<>>
    /\ ret = Ret("", <<>>, Nil)
    /\ bucket = <<>>
    /\ log = <<>>
    /\ s3files = <<>>
    /\ readers = <<>>
    /\ callers = <<>>

\* the state after a call that left heap n and handles f and returned err
Returned(n, f, op, args, err) ==
    /\ nodes' = Collect(n, f).nodes
    /\ files' = Collect(n, f).files
    /\ ret' = Ret(op, args, err)

CallCreate(p) ==
    /\ Len(files) < MaxHandles
    /\ \E r \in {Create(nodes, p)} :
          /\ Returned(r.nodes,
                      IF r.err = Nil THEN Append(files, r.file) ELSE files,
                      "create", <<p>>, r.err)
          /\ hist' = IF r.err = Nil
                     THEN Append(Disturb(hist, 0), Opened(nodes, p))
                     ELSE Disturb(hist, 0)
    /\ UNCHANGED <<sub, s3vars, readers, callers>>

CallWrite(h, b) ==
    /\ files[h].closed \/ Len(files[h].content) + Len(b) <= MaxLen
    /\ \E r \in {Write(files[h], b)} :
          /\ files' = [files EXCEPT ![h] = r.file]
          /\ ret' = Ret("write", <<h, b>>, r.err)
    /\ UNCHANGED <<nodes, sub, hist, s3vars, readers, callers>>

CallClose(h) ==
    /\ files[h].closed \/ CanAlloc(nodes, MaxNodes)
    /\ \E r \in {Close(nodes, files[h])} :
          Returned(r.nodes, [files EXCEPT ![h] = r.file], "close", <<h>>, r.err)
    /\ hist' = Disturb(hist, h)
    /\ UNCHANGED <<sub, s3vars, readers, callers>>

CallCopy(p, source) ==
    /\ CanAlloc(nodes, MaxNodes)
    /\ \E r \in {Copy(nodes, p, source)} :
          Returned(r.nodes, files, "copy", <<p, source>>, r.err)
    /\ hist' = Disturb(hist, 0)
    /\ UNCHANGED <<sub, s3vars, readers, callers>>

CallMove(p, q) ==
    /\ \E r \in {Move(nodes, p, q)} :
          Returned(r.nodes, files, "move", <<p, q>>, r.err)
    /\ hist' = Disturb(hist, 0)
    /\ UNCHANGED <<sub, s3vars, readers, callers>>

CallRemove(p) ==
    /\ \E r \in {Remove(nodes, p)} :
          Returned(r.nodes, files, "remove", <<p>>, r.err)
    /\ hist' = Disturb(hist, 0)
    /\ UNCHANGED <<sub, s3vars, readers, callers>>

CallMkdir(p) ==
    /\ CanAlloc(nodes, MaxNodes)
    /\ \E r \in {Mkdir(nodes, p)} :
          Returned(r.nodes, files, "mkdir", <<p>>, r.err)
    /\ hist' = Disturb(hist, 0)
    /\ UNCHANGED <<sub, s3vars, readers, callers>>

\* Stat, Readdir and Open assign to no field of a node or handle: what they
\* return is Stat(nodes, p), Readdir(nodes, p) and Open(nodes, p)
CallStat(p) ==
    /\ Stat(nodes, p).err \in {Nil, PathError("stat", Norm(p), ErrNoFile)}
    /\ UNCHANGED vars

CallReaddir(p) ==
    /\ Readdir(nodes, p).err \in {Nil, PathError("open", p, ErrNoFile)}
    /\ UNCHANGED vars

CallOpen(p) ==
    /\ Open(nodes, p).err \in {Nil, PathError("open", Norm(p), ErrNoFile)}
    /\ UNCHANGED vars

Next ==
    \/ \E p \in TreePaths : CallCreate(p)
    \/ \E h \in 1 .. Len(files), b \in Chunks : CallWrite(h, b)
    \/ \E h \in 1 .. Len(files) : CallClose(h)
    \/ \E p \in TreePaths, c \in Contents : CallCopy(p, c)
    \/ \E m \in MovePairs : CallMove(m[1], m[2])
    \/ \E p \in TreePaths : CallRemove(p)
    \/ \E p \in TreePaths : CallMkdir(p)
    \/ \E p \in TreePaths : CallStat(p)
    \/ \E p \in TreePaths : CallReaddir(p)
    \/ \E p \in TreePaths : CallOpen(p)

Spec == Init /\ [][Next]_vars

----------------------------------------------------------------------------
(* The calls with paths as callers write them: relative, with a trailing   *)
(* slash, with "." and ".." components                                     *)

\* "a", "a/", "a/../b", "/a/.", "a/b", ""
RawPaths ==
    { <<"a">>, <<"a", "">>, <<"a", "..", "b">>, <<"", "a", ".">>,
      <<"a", "b">>, <<"">> }

RawMovePairs ==
    { << <<"a">>, <<"a", "b">> >>,
      << <<"a", "b">>, <<"a", "">> >>,
      << <<"a", "..", "b">>, <<"", "a", ".">> >> }

RawNext ==
    \/ \E p \in RawPaths : CallCreate(p)
    \/ \E h \in 1 .. Len(files), b \in Chunks : CallWrite(h, b)
    \/ \E h \in 1 .. Len(files) : CallClose(h)
    \/ \E m \in RawMovePairs : CallMove(m[1], m[2])
    \/ \E p \in RawPaths : CallRemove(p)
    \/ \E p \in RawPaths : CallMkdir(p)
    \/ \E p \in RawPaths : CallStat(p)
    \/ \E p \in RawPaths : CallReaddir(p)
    \/ \E p \in RawPaths : CallOpen(p)

RawSpec == Init /\ [][RawNext]_vars

----------------------------------------------------------------------------
(* The subtree wrapper of vfs.go *)

\* whether the name a begins the name b, and what of b follows it
HasPrefix(b, a) == a = b \/ a = "" \/ (a = "." /\ b = "..")
CutPrefix(b, a) == IF a = b THEN "" ELSE IF a = "" THEN b ELSE "."

\* strings.TrimPrefix on segmented strings: prefix begins s when its segments
\* but the last are segments of s and its last segment begins the next of s
TrimPrefix(s, prefix) ==
    IF /\ Len(prefix) <= Len(s)
       /\ SubSeq(s, 1, Len(prefix) - 1) = Front(prefix)
       /\ HasPrefix(s[Len(prefix)], Last(prefix))
    THEN <<CutPrefix(s[Len(prefix)], Last(prefix))>>
            \o SubSeq(s, Len(prefix) + 1, Len(s))
    ELSE s

\* mapPath without the join under the root
mapPathUnrooted(root, path) == Clean(path)

mapPath(root, path) == Join(root, Clean(path))

unmapPath(root, path) == TrimPrefix(path, root)

unmapError(root, err) ==
    IF err.op = "" THEN err ELSE [err EXCEPT !.path = unmapPath(root, @)]

\* Subtree without the test that the mount point is a directory
SubtreeOfAnyNode(n, root) ==
    IF root = <<"">> THEN [wrapped |-> FALSE, err |-> Nil]
    ELSE With(Stat(n, root), LAMBDA mount :
             IF mount.err # Nil THEN [wrapped |-> FALSE, err |-> mount.err]
             ELSE [wrapped |-> TRUE, err |-> Nil])

\* Subtree: wrapped tells whether a subtree value was built; with the empty
\* root the file system itself is returned
Subtree(n, root) ==
    IF root = <<"">> THEN [wrapped |-> FALSE, err |-> Nil]
    ELSE With(Stat(n, root), LAMBDA mount :
             IF mount.err # Nil THEN [wrapped |-> FALSE, err |-> mount.err]
             ELSE IF ~n[mount.node].isDir
             THEN [wrapped |-> FALSE, err |-> PathError("stat", root, ErrNotDir)]
             ELSE [wrapped |-> TRUE, err |-> Nil])

subtreeOpen(n, root, name) ==
    With(Open(n, mapPath(root, name)), LAMBDA r :
        [r EXCEPT !.err = unmapError(root, @)])

subtreeCreate(n, root, name) ==
    With(Create(n, mapPath(root, name)), LAMBDA r :
        [r EXCEPT !.err = unmapError(root, @)])

subtreeCopy(n, root, destPath, source) ==
    Copy(n, mapPath(root, destPath), source)

subtreeMove(n, root, srcPath, destPath) ==
    Move(n, mapPath(root, srcPath), mapPath(root, destPath))

subtreeRemove(n, root, path) ==
    With(Remove(n, mapPath(root, path)), LAMBDA r :
        [r EXCEPT !.err = unmapError(root, @)])

subtreeStat(n, root, path) ==
    With(Stat(n, mapPath(root, path)), LAMBDA r :
        [r EXCEPT !.err = unmapError(root, @)])

subtreeReaddir(n, root, path) ==
    With(Readdir(n, mapPath(root, path)), LAMBDA r :
        [r EXCEPT !.err = unmapError(root, @)])

subtreeMkdir(n, root, path) ==
    With(Mkdir(n, mapPath(root, path)), LAMBDA r :
        [r EXCEPT !.err = unmapError(root, @)])

\* the tree the wrapper is built over: /a a directory, /b a file
SubMem ==
    (Root :> MemNode("", TRUE, <<>>, <<1, 2>>))
       @@ (1 :> Dir("a")) @@ (2 :> File("b", <<1>>))

SubMaxNodes == 4

\* "/a", "a", "", "/b", "b", "/a/a", "a/a"
SubRoots ==
    {<<"", "a">>, <<"a">>, <<"">>, <<"", "b">>, <<"b">>,
     <<"", "a", "a">>, <<"a", "a">>}

\* the paths handed to the wrapper: "", "/", "b", "/b", "../b"
SubPaths ==
    {<<"">>, <<"", "">>, <<"b">>, <<"", "b">>, <<"..", "b">>}

SubMovePairs ==
    { << <<"b">>, <<"", "">> >>,
      << <<"..", "b">>, <<"b">> >>,
      << <<"", "">>, <<"b">> >> }

SubInit ==
    /\ nodes = SubMem
    /\ files = <<>>
    /\ sub = NoSub
    /\ hist = <<>>
    /\ ret = Ret("", <<>>, Nil)
    /\ bucket = <<>>
    /\ log = <<>>
    /\ s3files = <<>>
    /\ readers = <<>>
    /\ callers = <<>>

NewSubtree(root) ==
    /\ sub = NoSub
    /\ \E r \in {Subtree(nodes, root)} :
          /\ sub' = IF r.wrapped THEN root ELSE sub
          /\ ret' = Ret("subtree", <<root>>, r.err)
    /\ UNCHANGED <<nodes, files, hist, s3vars, readers, callers>>

\* hist keeps no record of the handles made through the wrapper
SubCreate(p) ==
    /\ sub # NoSub
    /\ Len(files) < MaxHandles
    /\ \E r \in {subtreeCreate(nodes, sub, p)} :
          /\ Returned(r.nodes,
                      IF r.err = Nil THEN Append(files, r.file) ELSE files,
                      "create", <<p>>, r.err)
    /\ UNCHANGED <<sub, hist, s3vars, readers, callers>>

\* the handle of subtree.Create is the backend's own: Write is CallWrite
SubClose(h) ==
    /\ sub # NoSub
    /\ files[h].closed \/ CanAlloc(nodes, SubMaxNodes)
    /\ \E r \in {Close(nodes, files[h])} :
          Returned(r.nodes, [files EXCEPT ![h] = r.file], "close", <<h>>, r.err)
    /\ UNCHANGED <<sub, hist, s3vars, readers, callers>>

SubCopy(p, source) ==
    /\ sub # NoSub
    /\ CanAlloc(nodes, SubMaxNodes)
    /\ \E r \in {subtreeCopy(nodes, sub, p, source)} :
          Returned(r.nodes, files, "copy", <<p, source>>, r.err)
    /\ UNCHANGED <<sub, hist, s3vars, readers, callers>>

SubMove(p, q) ==
    /\ sub # NoSub
    /\ \E r \in {subtreeMove(nodes, sub, p, q)} :
          Returned(r.nodes, files, "move", <<p, q>>, r.err)
    /\ UNCHANGED <<sub, hist, s3vars, readers, callers>>

SubRemove(p) ==
    /\ sub # NoSub
    /\ \E r \in {subtreeRemove(nodes, sub, p)} :
          Returned(r.nodes, files, "remove", <<p>>, r.err)
    /\ UNCHANGED <<sub, hist, s3vars, readers, callers>>

SubMkdir(p) ==
    /\ sub # NoSub
    /\ CanAlloc(nodes, SubMaxNodes)
    /\ \E r \in {subtreeMkdir(nodes, sub, p)} :
          Returned(r.nodes, files, "mkdir", <<p>>, r.err)
    /\ UNCHANGED <<sub, hist, s3vars, readers, callers>>

SubStat(p) ==
    /\ sub # NoSub
    /\ subtreeStat(nodes, sub, p).err.cause \in {"nil", ErrNoFile}
    /\ UNCHANGED vars

SubReaddir(p) ==
    /\ sub # NoSub
    /\ subtreeReaddir(nodes, sub, p).err.cause \in {"nil", ErrNoFile}
    /\ UNCHANGED vars

SubOpen(p) ==
    /\ sub # NoSub
    /\ subtreeOpen(nodes, sub, p).err.cause \in {"nil", ErrNoFile}
    /\ UNCHANGED vars

SubNext ==
    \/ \E r \in SubRoots : NewSubtree(r)
    \/ \E p \in SubPaths : SubCreate(p)
    \/ \E h \in 1 .. Len(files), b \in Chunks : sub # NoSub /\ CallWrite(h, b)
    \/ \E h \in 1 .. Len(files) : SubClose(h)
    \/ \E p \in SubPaths, c \in Chunks : SubCopy(p, c)
    \/ \E m \in SubMovePairs : SubMove(m[1], m[2])
    \/ \E p \in SubPaths : SubRemove(p)
    \/ \E p \in SubPaths : SubMkdir(p)
    \/ \E p \in SubPaths : SubStat(p)
    \/ \E p \in SubPaths : SubReaddir(p)
    \/ \E p \in SubPaths : SubOpen(p)

SubSpec == SubInit /\ [][SubNext]_vars

----------------------------------------------------------------------------
(* Vocabulary of the properties *)

RootPath == <<"", "">>

\* the components of the normalized path, none for the root
Comps(p) == IF Norm(p) = RootPath THEN <<>> ELSE Tail(Norm(p))

\* q names the node p names or a node beneath it
AtOrBeneath(p, q) ==
    /\ Len(Comps(p)) <= Len(Comps(q))
    /\ SubSeq(Comps(q), 1, Len(Comps(p))) = Comps(p)

Exists(n, p) == Stat(n, p).err = Nil
NotFound(n, p) == Stat(n, p).err.cause = ErrNoFile

\* what a caller can learn about the node at p: its metadata and its bytes
Seen(n, p) == <<Info(n, Stat(n, p).node), Open(n, p).content>>

\* the names Readdir lists for p
Listed(n, p) == {n[Readdir(n, p).infos[k]].name : k \in 1 .. Len(Readdir(n, p).infos)}

\* how often x occurs in the sequence s
Count(s, x) == Cardinality({k \in 1 .. Len(s) : s[k] = x})

\* the last call was op, and it returned nil
Did(op) == ret.op = op /\ ret.err = Nil

----------------------------------------------------------------------------
(* C1.  Create(p), Write(C), Close with nothing in between, for a path p   *)
(* other than the root whose parent is an existing directory, leaves       *)
(* exactly C at p, whether or not p named a node before: Stat(p) succeeds  *)
(* with size len(C) and Open(p) reads C.  The same holds of Copy(p, C),    *)
(* which is that sequence.                                                 *)

HoldsExactly(n, p, C) ==
    /\ Exists(n, p)
    /\ Info(n, Stat(n, p).node).size = Len(C)
    /\ Open(n, p) = [content |-> C, err |-> Nil]

----------------------------------------------------------------------------
(* C2.  After Move(src, dst) returns nil, for an existing src and a        *)
(* dst # src whose parent is an existing directory, Stat(dst) succeeds     *)
(* with the size src had and Stat(src) fails with the not-found cause.     *)

MoveCase(n, src, dst) ==
    /\ Exists(n, src)
    /\ Norm(dst) # Norm(src)
    /\ parentNode(n, dst) # NilNode
    /\ n[parentNode(n, dst)].isDir

C2_MovePreservesSize ==
    [][(ret'.op = "move" /\ ret'.err = Nil
            /\ MoveCase(nodes, ret'.args[1], ret'.args[2]))
         => /\ Exists(nodes', ret'.args[2])
            /\ Info(nodes', Stat(nodes', ret'.args[2]).node).size
                  = Info(nodes, Stat(nodes, ret'.args[1]).node).size
            /\ NotFound(nodes', ret'.args[1])]_vars

----------------------------------------------------------------------------
(* C3.  Whenever Remove(p) returns nil, Stat(p) and Stat of every path     *)
(* beneath p fail with the not-found cause afterwards, and every other     *)
(* node is still present with the same metadata and content.               *)

C3_RemoveRemovesSubtreeOnly ==
    [][(ret'.op = "remove" /\ ret'.err = Nil)
         => \A q \in TreePaths :
               IF AtOrBeneath(ret'.args[1], q)
               THEN NotFound(nodes', q)
               ELSE Exists(nodes, q)
                       => Exists(nodes', q) /\ Seen(nodes', q) = Seen(nodes, q)]_vars

----------------------------------------------------------------------------
(* C4.  In every reachable state no node has two children of one name.     *)

C4_UniqueSiblingNames ==
    \A d \in DOMAIN nodes :
        \A k, l \in 1 .. Len(nodes[d].children) :
            nodes[nodes[d].children[k]].name = nodes[nodes[d].children[l]].name
               => k = l

----------------------------------------------------------------------------
(* C5.  In every reachable state Readdir of an existing directory returns  *)
(* its children in ascending order of name, each child once and nothing    *)
(* else, whatever the order they are stored in.                            *)

Ascending(n, infos) ==
    \A k, l \in 1 .. Len(infos) : k < l => ~Less(n, infos[l], infos[k])

C5_ReaddirSortedAndComplete ==
    \A d \in TreePaths :
        (Exists(nodes, d) /\ nodes[Stat(nodes, d).node].isDir)
           => /\ Readdir(nodes, d).err = Nil
              /\ Ascending(nodes, Readdir(nodes, d).infos)
              /\ Len(Readdir(nodes, d).infos) = Len(nodes[Stat(nodes, d).node].children)
              /\ \A c \in DOMAIN nodes :
                    Count(Readdir(nodes, d).infos, c)
                       = Count(nodes[Stat(nodes, d).node].children, c)

\* a directory stores two children against the order of their names
C5_Witness ==
    \E d \in TreePaths :
        /\ Exists(nodes, d) /\ nodes[Stat(nodes, d).node].isDir
        /\ Len(nodes[Stat(nodes, d).node].children) = 2
        /\ ~Ascending(nodes, nodes[Stat(nodes, d).node].children)

----------------------------------------------------------------------------
(* C6.  When Close of a handle from Create(p) returns nil, the directory   *)
(* the handle was created in has exactly one child named base(p), the file *)
(* holding the bytes written through the handle, whatever ran in between.  *)

C6_CloseReplacesAtClose ==
    \A h \in 1 .. Len(files) :
        (Did("close") /\ ret.args[1] = h)
           => /\ Cardinality(Named(nodes, files[h].dir, files[h].path)) = 1
              /\ nodes[childByName(nodes, files[h].dir, files[h].path)]
                    = File(files[h].path, files[h].content)

----------------------------------------------------------------------------
(* C7.  For a path p that names no node when Create(p) is called: after    *)
(* Create and after any number of Writes on the handle, with no other call *)
(* in between, Stat(p) fails and Readdir of p's parent does not list       *)
(* base(p); once Close on the handle has returned nil, Stat(p) succeeds,   *)
(* p is a file and Readdir of the parent lists it.                         *)

C7_VisibleExactlyAtClose ==
    \A h \in 1 .. Len(files) :
        (hist[h].fresh /\ hist[h].quiet)
           => /\ ~files[h].closed
                 => /\ NotFound(nodes, hist[h].cpath)
                    /\ files[h].path \notin Listed(nodes, PathDir(hist[h].cpath))
              /\ (Did("close") /\ ret.args[1] = h)
                 => /\ Exists(nodes, hist[h].cpath)
                    /\ ~nodes[Stat(nodes, hist[h].cpath).node].isDir
                    /\ files[h].path \in Listed(nodes, PathDir(hist[h].cpath))

\* a handle for a new path has been written to and then closed
C7_Witness ==
    \E h \in 1 .. Len(files) :
        /\ Did("close") /\ ret.args[1] = h
        /\ hist[h].fresh /\ hist[h].quiet
        /\ files[h].content = <<1>>

----------------------------------------------------------------------------
(* C8.  Once a handle is closed it stays closed, and every later Write and *)
(* Close on it returns the already-closed error and changes neither the    *)
(* tree nor the handle.                                                    *)

C8_ClosedHandleRejects ==
    [][\A h \in 1 .. Len(files) :
          files[h].closed
             => /\ files'[h].closed
                /\ (ret'.op \in {"write", "close"} /\ ret'.args[1] = h)
                      => /\ ret'.err = BareError(ErrClosed)
                         /\ nodes' = nodes
                         /\ files' = files]_vars

\* a Close on an already closed handle has returned
C8_Witness ==
    /\ ret.op = "close"
    /\ ret.err = BareError(ErrClosed)
    /\ files[ret.args[1]].closed

----------------------------------------------------------------------------
(* C9.  For a wrapper with root r and every caller path p without a ".."   *)
(* component: Stat(p), Readdir(p) and Open(p) through the wrapper return   *)
(* the node, list and bytes the backend returns for r joined with p, with  *)
(* an error of the same operation and cause (the error's path is rewritten *)
(* by the wrapper); Create, Mkdir, Remove, Move and Copy through the       *)
(* wrapper leave the backend as the same call on r joined with p does;     *)
(* and Readdir("/") through the wrapper lists each child of r once.        *)

NoDotDot(p) == \A k \in 1 .. Len(p) : p[k] # ".."

SameErr(e, f) == e.op = f.op /\ e.cause = f.cause

\* the call op made on the backend itself with every path joined under root:
\* the heap and handles it leaves, and the error it returns
Direct(n, f, root, op, args) ==
    CASE op = "create" ->
            With(Create(n, Join(root, args[1])), LAMBDA r :
                [left |-> Collect(r.nodes, IF r.err = Nil THEN Append(f, r.file) ELSE f),
                 err |-> r.err])
      [] op = "mkdir" ->
            With(Mkdir(n, Join(root, args[1])), LAMBDA r :
                [left |-> Collect(r.nodes, f), err |-> r.err])
      [] op = "remove" ->
            With(Remove(n, Join(root, args[1])), LAMBDA r :
                [left |-> Collect(r.nodes, f), err |-> r.err])
      [] op = "copy" ->
            With(Copy(n, Join(root, args[1]), args[2]), LAMBDA r :
                [left |-> Collect(r.nodes, f), err |-> r.err])
      [] op = "move" ->
            With(Move(n, Join(root, args[1]), Join(root, args[2])), LAMBDA r :
                [left |-> Collect(r.nodes, f), err |-> r.err])

PathArgs(op, args) == IF op = "move" THEN {args[1], args[2]} ELSE {args[1]}

QueriesAgree(n, root) ==
    /\ \A p \in SubPaths :
          NoDotDot(p)
             => /\ subtreeStat(n, root, p).node = Stat(n, Join(root, p)).node
                /\ SameErr(subtreeStat(n, root, p).err, Stat(n, Join(root, p)).err)
                /\ subtreeReaddir(n, root, p).infos = Readdir(n, Join(root, p)).infos
                /\ SameErr(subtreeReaddir(n, root, p).err,
                           Readdir(n, Join(root, p)).err)
                /\ subtreeOpen(n, root, p).content = Open(n, Join(root, p)).content
                /\ SameErr(subtreeOpen(n, root, p).err, Open(n, Join(root, p)).err)
    /\ Exists(n, root)
          => /\ subtreeReaddir(n, root, RootPath).err = Nil
             /\ \A c \in DOMAIN n :
                   Count(subtreeReaddir(n, root, RootPath).infos, c)
                      = Count(n[Stat(n, root).node].children, c)

\* the step is a call through the wrapper, with no ".." in its paths, that
\* leaves the backend and returns as the direct call does
MutatesAsDirect ==
    (/\ sub # NoSub /\ sub' = sub
     /\ ret'.op \in {"create", "mkdir", "remove", "copy", "move"}
     /\ \A p \in PathArgs(ret'.op, ret'.args) : NoDotDot(p))
       => With(Direct(nodes, files, sub, ret'.op, ret'.args), LAMBDA d :
              /\ nodes' = d.left.nodes
              /\ files' = d.left.files
              /\ SameErr(ret'.err, d.err))

C9_SubtreeMapsToJoin ==
    /\ [](sub # NoSub => QueriesAgree(nodes, sub))
    /\ [][MutatesAsDirect]_vars

\* Mkdir("/b") through a wrapper with the relative root "a" has made /a/b,
\* and Readdir("/") through the wrapper lists it
C9_Witness ==
    /\ sub = <<"a">>
    /\ Did("mkdir") /\ ret.args = << <<"", "b">> >>
    /\ Exists(nodes, <<"", "a", "b">>)
    /\ Listed(nodes, mapPath(sub, RootPath)) = {"b"}

----------------------------------------------------------------------------
(* C10.  For a wrapper with root r and every caller path, ".." components  *)
(* included: no call through the wrapper or through a handle it returned   *)
(* creates, removes or changes a node of the backend at a path outside the *)
(* subtree of r, and every node Stat returns through the wrapper lies in   *)
(* the subtree of r.                                                       *)

\* the absolute paths of the backend down to depth two
FsPaths == {RootPath} \cup {Slash(s) : s \in SeqsUpTo(Names, 2) \ {<<>>}}

\* the nodes of the subtree of root
Under(n, root) ==
    With(childByPath(n, root), LAMBDA c :
        IF c = NilNode THEN {}
        ELSE With(Visit(n, <<>>, <<c>>), LAMBDA order :
                 {order[k] : k \in 1 .. Len(order)}))

C10_SubtreeConfined ==
    [][sub' # NoSub
         => /\ (sub = sub' /\ ret'.op \in {"create", "close", "mkdir", "remove", "copy", "move"})
                  => \A q \in FsPaths :
                        ~AtOrBeneath(sub, q)
                           => /\ Exists(nodes', q) = Exists(nodes, q)
                              /\ Exists(nodes, q) => Seen(nodes', q) = Seen(nodes, q)
            /\ \A p \in SubPaths :
                  subtreeStat(nodes', sub', p).err = Nil
                     => subtreeStat(nodes', sub', p).node \in Under(nodes', sub')]_vars

----------------------------------------------------------------------------
(* C11.  For a wrapper with any root Subtree accepts, every structured     *)
(* error a call through the wrapper returns (Open, Create, Copy, Move,     *)
(* Remove, Stat, Readdir, Mkdir) carries the caller's own path normalized, *)
(* never the backend's path with the root in it.                           *)

Structured(err) == err.op # ""

CallerPath(err, p) == Structured(err) => err.path = Norm(p)

C11_SubtreeErrorsRelative ==
    [][sub' # NoSub
         => /\ (/\ sub = sub'
                /\ ret'.op \in {"create", "mkdir", "remove", "copy", "move"})
               => CallerPath(ret'.err, ret'.args[1])
            /\ \A p \in SubPaths :
                  /\ CallerPath(subtreeStat(nodes', sub', p).err, p)
                  /\ CallerPath(subtreeReaddir(nodes', sub', p).err, p)
                  /\ CallerPath(subtreeOpen(nodes', sub', p).err, p)]_vars

----------------------------------------------------------------------------
(* C12.  Subtree(fs, r) with r # "" builds a wrapper only if fs.Stat(r)    *)
(* finds a directory; for a missing r it returns the error of Stat and no  *)
(* wrapper; for a file r it returns op "stat", path r and the              *)
(* not-a-directory cause and no wrapper; Subtree(fs, "") returns fs with   *)
(* no wrapper, and no call of Subtree changes the tree.                    *)

\* what Subtree(fs, r) did in the step, given the error a missing r is to
\* be answered with
Constructs(r, missing) ==
    /\ nodes' = nodes
    /\ IF r = <<"">> THEN ret'.err = Nil /\ sub' = NoSub
       ELSE IF ~Exists(nodes, r) THEN ret'.err = missing /\ sub' = NoSub
       ELSE IF ~nodes[Stat(nodes, r).node].isDir
       THEN ret'.err = PathError("stat", r, ErrNotDir) /\ sub' = NoSub
       ELSE ret'.err = Nil /\ sub' = r

\* as claimed: the error for a missing r carries the path r as it was given
C12_SubtreeConstruction ==
    [][ret'.op = "subtree"
         => Constructs(ret'.args[1],
                       PathError("stat", ret'.args[1], ErrNoFile))]_vars

\* amended: the error for a missing r is the backend's, with r normalized
C12_SubtreeConstructionNormalized ==
    [][ret'.op = "subtree"
         => Constructs(ret'.args[1],
                       PathError("stat", Norm(ret'.args[1]), ErrNoFile))]_vars

\* Subtree has been called with the missing relative root "a/a" and with
\* nothing built
C12_Witness ==
    /\ ret.op = "subtree"
    /\ ret.args = << <<"a", "a">> >>
    /\ ret.err = PathError("stat", <<"", "a", "a">>, ErrNoFile)
    /\ sub = NoSub

----------------------------------------------------------------------------
(* C13.  Every Open, Stat, Remove, Readdir and Move whose path (for Move   *)
(* the source) resolves to no node, a missing parent included, returns a   *)
(* structured error with the not-found cause and the operation "open",     *)
(* "stat", "remove", "open" and "move": no other cause and no crash.       *)

Resolves(n, p) == childByPath(n, p) # NilNode

NotFoundFrom(err, op) == err.op = op /\ err.cause = ErrNoFile

C13_MissingPathIsNotFound ==
    [][/\ (ret'.op \in {"remove", "move"} /\ ~Resolves(nodes, ret'.args[1]))
             => NotFoundFrom(ret'.err, ret'.op)
       /\ \A p \in TreePaths :
             ~Resolves(nodes', p)
                => /\ NotFoundFrom(Open(nodes', p).err, "open")
                   /\ NotFoundFrom(Stat(nodes', p).err, "stat")
                   /\ NotFoundFrom(Readdir(nodes', p).err, "open")]_vars

----------------------------------------------------------------------------
(* C14.  Every structured error of Open, Create, Remove, Stat, Readdir,    *)
(* Mkdir and Move carries the caller's path normalized (absolute and       *)
(* clean), also for relative paths and paths such as "a/../b" or "a/".     *)

C14_ErrorPathNormalized ==
    [][/\ ret'.op \in {"create", "remove", "mkdir", "move"}
             => CallerPath(ret'.err, ret'.args[1])
       /\ \A p \in RawPaths :
             /\ CallerPath(Open(nodes', p).err, p)
             /\ CallerPath(Stat(nodes', p).err, p)
             /\ CallerPath(Readdir(nodes', p).err, p)]_vars

----------------------------------------------------------------------------
(* C15.  Create(p), Mkdir(p) and Move(src, p) where the parent of p is     *)
(* missing or is a file return an error value tagged "create", "mkdir",    *)
(* "move" and leave the tree unchanged: no crash, and Move does not detach *)
(* the source.                                                             *)

InvalidParent(n, p) ==
    parentNode(n, p) = NilNode \/ ~n[parentNode(n, p)].isDir

\* the path whose parent the call is to add a child to
Target(op, args) == IF op = "move" THEN args[2] ELSE args[1]

C15_InvalidParentFails ==
    [][(/\ ret'.op \in {"create", "mkdir", "move"}
        /\ InvalidParent(nodes, Target(ret'.op, ret'.args)))
         => /\ ret'.err.op = ret'.op
            /\ nodes' = nodes]_vars

----------------------------------------------------------------------------
(* C16.  Readdir of a path that resolves to a file fails, with a cause     *)
(* other than not-found; it never returns a successful empty list.         *)

C16_ReaddirOfFileFails ==
    \A p \in TreePaths :
        (Resolves(nodes, p) /\ ~nodes[childByPath(nodes, p)].isDir)
           => /\ Readdir(nodes, p).err # Nil
              /\ Readdir(nodes, p).err.cause # ErrNoFile


----------------------------------------------------------------------------
(***************************************************************************)
(* The object-store backend (S3FileSystem).  The store is flat: bucket     *)
(* maps a key to the content stored there.  Keys, and the names and error  *)
(* paths made from them, are strings of characters, because the store      *)
(* matches prefixes character by character; a path given to a call is a    *)
(* segment sequence as elsewhere and is spelled out by Text.  Each request *)
(* to the store (list, put, copy, delete, get) may fail; env.fail names    *)
(* the requests that fail during one call and env.page is the number of    *)
(* entries the store puts in one page of a listing.                        *)
(***************************************************************************)

MaxPage == 2        \* entries in one page of a listing: 1 .. MaxPage

\* the characters of the model, in byte order
Alphabet == <<".", "/", "1", "a", "b">>
Ord(c) == CHOOSE i \in DOMAIN Alphabet : Alphabet[i] = c

\* the characters of one path component
Spell(name) ==
    CASE name = "" -> <<>>
      [] name = "." -> <<".">>
      [] name = ".." -> <<".", ".">>
      [] name = "a1" -> <<"a", "1">>
      [] OTHER -> <<name>>

\* the characters of a segmented string
RECURSIVE Text(_)
Text(path) ==
    IF Len(path) = 1 THEN Spell(path[1])
    ELSE Spell(Head(path)) \o <<"/">> \o Text(Tail(path))

\* strings.HasPrefix, TrimPrefix, HasSuffix, TrimSuffix
hasPrefix(s, prefix) ==
    Len(prefix) <= Len(s) /\ SubSeq(s, 1, Len(prefix)) = prefix
trimPrefix(s, prefix) ==
    IF hasPrefix(s, prefix) THEN SubSeq(s, Len(prefix) + 1, Len(s)) ELSE s
hasSuffix(s, suffix) ==
    Len(suffix) <= Len(s) /\ SubSeq(s, Len(s) - Len(suffix) + 1, Len(s)) = suffix
trimSuffix(s, suffix) ==
    IF hasSuffix(s, suffix) THEN SubSeq(s, 1, Len(s) - Len(suffix)) ELSE s

\* the positions at which sep occurs in s
Occurrences(s, sep) ==
    {i \in 1..(Len(s) - Len(sep) + 1) : SubSeq(s, i, i + Len(sep) - 1) = sep}

\* strings.Index, counted from 1; 0 when sep does not occur
Index(s, sep) ==
    IF Occurrences(s, sep) = {} THEN 0 ELSE Least(Occurrences(s, sep))

\* strings.Replace(s, old, "", 1)
replaceFirst(s, old) ==
    IF Index(s, old) = 0 THEN s
    ELSE SubSeq(s, 1, Index(s, old) - 1)
            \o SubSeq(s, Index(s, old) + Len(old), Len(s))

\* path.Base on a string of characters
RECURSIVE stripSlashes(_)
stripSlashes(s) ==
    IF s # <<>> /\ Last(s) = "/" THEN stripSlashes(Front(s)) ELSE s

afterLastSlash(s) ==
    IF Occurrences(s, <<"/">>) = {} THEN s
    ELSE SubSeq(s, CHOOSE i \in Occurrences(s, <<"/">>) :
                      \A j \in Occurrences(s, <<"/">>) : j <= i,
                Len(s))

pathBase(s) ==
    IF s = <<>> THEN <<".">>
    ELSE IF stripSlashes(s) = <<>> THEN <<"/">>
    ELSE Tail(afterLastSlash(<<"/">> \o stripSlashes(s)))

\* Go's < on strings
RECURSIVE stringLess(_, _)
stringLess(s, t) ==
    IF t = <<>> THEN FALSE
    ELSE IF s = <<>> THEN TRUE
    ELSE IF Head(s) # Head(t) THEN Ord(Head(s)) < Ord(Head(t))
    ELSE stringLess(Tail(s), Tail(t))

keyPath(path) == trimPrefix(Text(Norm(path)), <<"/">>)

\* errors of the store's client
RequestError == BareError("RequestError")     \* the request did not succeed
NoSuchKey == BareError("NoSuchKey")           \* awserr code "NoSuchKey"
NotFoundError == BareError(ErrNoFile)         \* vfs.ErrNoFile

\* err as the Err of an enclosing *os.PathError
Wraps(err) == IF err.op = "" THEN err.cause ELSE err.op \o ": " \o err.cause

s3Err(op, key, err) ==
    IF err = Nil THEN Nil
    ELSE PathError(op, trimSuffix(<<"/">> \o key, <<"/">>), Wraps(err))

\* the store
PutObject(b, key, body) ==
    [k \in DOMAIN b \cup {key} |-> IF k = key THEN body ELSE b[k]]
DeleteObject(b, key) == [k \in DOMAIN b \ {key} |-> b[k]]
Request(call, key) == [call |-> call, key |-> key]

\* ListObjectsV2 with a prefix and the delimiter "/": a key that has the
\* delimiter after the prefix is rolled up into the common prefix that ends
\* at its first delimiter, every other key is listed as an object
ListEntry(b, key, prefix) ==
    IF Index(trimPrefix(key, prefix), <<"/">>) = 0
    THEN [Key |-> key, common |-> FALSE, Size |-> Len(b[key])]
    ELSE [Key |-> prefix \o SubSeq(trimPrefix(key, prefix), 1,
                                  Index(trimPrefix(key, prefix), <<"/">>)),
          common |-> TRUE, Size |-> 0]

ListEntries(b, prefix) ==
    {ListEntry(b, key, prefix) : key \in {k \in DOMAIN b : hasPrefix(k, prefix)}}

\* the store lists in ascending byte order of the keys
RECURSIVE Ordered(_)
Ordered(entries) ==
    IF entries = {} THEN <<>>
    ELSE With(CHOOSE e \in entries :
                  \A f \in entries : f = e \/ stringLess(e.Key, f.Key),
              LAMBDA e : <<e>> \o Ordered(entries \ {e}))

RECURSIVE Paginate(_, _)
Paginate(listing, size) ==
    IF Len(listing) <= size THEN <<listing>>
    ELSE <<SubSeq(listing, 1, size)>>
            \o Paginate(SubSeq(listing, size + 1, Len(listing)), size)

IsCommon(entry) == entry.common
IsObject(entry) == ~entry.common

\* ListObjectsV2Pages with the callback of Stat and Readdir, which appends
\* the CommonPrefixes and the Contents of every page and asks for the next
RECURSIVE Collected(_)
Collected(pages) ==
    IF pages = <<>> THEN [CommonPrefixes |-> <<>>, Contents |-> <<>>]
    ELSE [CommonPrefixes |-> SelectSeq(Head(pages), IsCommon)
                                \o Collected(Tail(pages)).CommonPrefixes,
          Contents |-> SelectSeq(Head(pages), IsObject)
                          \o Collected(Tail(pages)).Contents]

\* a caller that stops after the first page
ListObjectsV2FirstPage(b, prefix, size) ==
    Collected(<<Head(Paginate(Ordered(ListEntries(b, prefix)), size))>>)

ListObjectsV2Pages(b, prefix, size) ==
    Collected(Paginate(Ordered(ListEntries(b, prefix)), size))

s3FileInfo(name, isDir, size) == [name |-> name, isDir |-> isDir, size |-> size]
NoInfo == s3FileInfo(<<>>, FALSE, -1)

Found(seq, key) == \E i \in DOMAIN seq : seq[i].Key = key
Object(seq, key) == seq[CHOOSE i \in DOMAIN seq : seq[i].Key = key]

s3StatIn(key, listed) ==
    IF Found(listed.CommonPrefixes, key \o <<"/">>)
    THEN [info |-> s3FileInfo(pathBase(key \o <<"/">>), TRUE, 0), err |-> Nil]
    ELSE IF Found(listed.Contents, key)
    THEN [info |-> s3FileInfo(pathBase(key), FALSE,
                              Object(listed.Contents, key).Size),
          err |-> Nil]
    ELSE [info |-> NoInfo, err |-> s3Err("stat", key, NotFoundError)]

s3Stat(b, path, env) ==
    IF "list" \in env.fail
    THEN [info |-> NoInfo, err |-> s3Err("stat", keyPath(path), RequestError),
          log |-> <<Request("list", keyPath(path))>>]
    ELSE With(s3StatIn(keyPath(path),
                       ListObjectsV2Pages(b, keyPath(path), env.page)),
              LAMBDA r : [info |-> r.info, err |-> r.err,
                          log |-> <<Request("list", keyPath(path))>>])

\* sort.Sort on fewer than twelve elements is an insertion sort: an element
\* moves left while its name is less than its left neighbour's
s3Less(x, y) == stringLess(x.name, y.name)

RECURSIVE s3Insert(_, _)
s3Insert(sorted, x) ==
    IF sorted # <<>> /\ s3Less(x, Last(sorted))
    THEN Append(s3Insert(Front(sorted), x), Last(sorted))
    ELSE Append(sorted, x)

RECURSIVE s3Sort(_, _)
s3Sort(infos, sorted) ==
    IF infos = <<>> THEN sorted
    ELSE s3Sort(Tail(infos), s3Insert(sorted, Head(infos)))

RECURSIVE dirInfos(_, _)
dirInfos(dirs, prefix) ==
    IF dirs = <<>> THEN <<>>
    ELSE <<s3FileInfo(trimPrefix(trimSuffix(Head(dirs).Key, <<"/">>), prefix),
                      TRUE, 0)>>
            \o dirInfos(Tail(dirs), prefix)

RECURSIVE fileInfos(_, _)
fileInfos(objects, prefix) ==
    IF objects = <<>> THEN <<>>
    ELSE (IF replaceFirst(Head(objects).Key, prefix) # <<>>
          THEN <<s3FileInfo(replaceFirst(Head(objects).Key, prefix), FALSE,
                            Head(objects).Size)>>
          ELSE <<>>)
            \o fileInfos(Tail(objects), prefix)

readdirPrefixBare(path) == keyPath(path)

readdirPrefix(path) ==
    IF ~hasSuffix(keyPath(path), <<"/">>) /\ keyPath(path) # <<>>
    THEN keyPath(path) \o <<"/">>
    ELSE keyPath(path)

s3ReaddirIn(key, listed) ==
    IF listed.CommonPrefixes = <<>> /\ listed.Contents = <<>>
    THEN [infos |-> <<>>, err |-> s3Err("open", key, NotFoundError)]
    ELSE [infos |-> s3Sort(dirInfos(listed.CommonPrefixes, key)
                              \o fileInfos(listed.Contents, key), <<>>),
          err |-> Nil]

s3Readdir(b, path, env) ==
    IF "list" \in env.fail
    THEN [infos |-> <<>>, err |-> RequestError,
          log |-> <<Request("list", readdirPrefix(path))>>]
    ELSE With(s3ReaddirIn(readdirPrefix(path),
                          ListObjectsV2Pages(b, readdirPrefix(path), env.page)),
              LAMBDA r : [infos |-> r.infos, err |-> r.err,
                          log |-> <<Request("list", readdirPrefix(path))>>])

\* Remove stats the path first; a directory is removed by deleting its
\* marker key.  Deleting a key that is not stored succeeds.
s3RemoveKey(path, st) ==
    IF st.info.isDir THEN keyPath(path) \o <<"/">> ELSE keyPath(path)

s3RemoveAfter(b, path, env, st) ==
    IF st.err # Nil
    THEN [bucket |-> b, err |-> [st.err EXCEPT !.op = "remove"], log |-> st.log]
    ELSE IF "delete" \in env.fail
    THEN [bucket |-> b,
          err |-> s3Err("remove", s3RemoveKey(path, st), RequestError),
          log |-> Append(st.log, Request("delete", s3RemoveKey(path, st)))]
    ELSE [bucket |-> DeleteObject(b, s3RemoveKey(path, st)),
          err |-> Nil,
          log |-> Append(st.log, Request("delete", s3RemoveKey(path, st)))]

s3Remove(b, path, env) == s3RemoveAfter(b, path, env, s3Stat(b, path, env))

\* Create and Close are not modelled here; Copy uploads the source under the
\* key of destPath
s3Copy(b, destPath, source, env) ==
    IF "put" \in env.fail
    THEN [bucket |-> b, err |-> s3Err("copy", keyPath(destPath), RequestError),
          log |-> <<Request("put", keyPath(destPath))>>]
    ELSE [bucket |-> PutObject(b, keyPath(destPath), source), err |-> Nil,
          log |-> <<Request("put", keyPath(destPath))>>]

\* CopyObject fails when the request fails or no object is stored at srcKey
CopyObject(b, srcKey, destKey, env) ==
    IF "copy" \in env.fail THEN [bucket |-> b, err |-> RequestError]
    ELSE IF srcKey \notin DOMAIN b THEN [bucket |-> b, err |-> NoSuchKey]
    ELSE [bucket |-> PutObject(b, destKey, b[srcKey]), err |-> Nil]

s3MoveAfter(srcPath, destPath, env, copied) ==
    IF copied.err # Nil
    THEN [bucket |-> copied.bucket,
          err |-> s3Err("move", keyPath(destPath), copied.err),
          log |-> <<Request("copy", keyPath(destPath))>>]
    ELSE With(s3Remove(copied.bucket, srcPath, env),
              LAMBDA removed :
                  [bucket |-> removed.bucket,
                   err |-> s3Err("move", keyPath(destPath), removed.err),
                   log |-> <<Request("copy", keyPath(destPath))>>
                              \o removed.log])

s3Move(b, srcPath, destPath, env) ==
    s3MoveAfter(srcPath, destPath, env,
                CopyObject(b, keyPath(srcPath), keyPath(destPath), env))

\* Open downloads the object into a temporary file and returns that file
s3Open(b, path, env) ==
    IF "get" \in env.fail
    THEN [data |-> <<>>, err |-> s3Err("open", keyPath(path), RequestError),
          log |-> <<Request("get", keyPath(path))>>]
    ELSE IF keyPath(path) \notin DOMAIN b
    THEN [data |-> <<>>, err |-> s3Err("open", keyPath(path), NotFoundError),
          log |-> <<Request("get", keyPath(path))>>]
    ELSE [data |-> b[keyPath(path)], err |-> Nil,
          log |-> <<Request("get", keyPath(path))>>]

\* Mkdir stores an empty object under the key with a trailing "/" and
\* returns the client's error as it is
s3Mkdir(b, path, env) ==
    IF "put" \in env.fail
    THEN [bucket |-> b, err |-> RequestError,
          log |-> <<Request("put", keyPath(path) \o <<"/">>)>>]
    ELSE [bucket |-> PutObject(b, keyPath(path) \o <<"/">>, <<>>), err |-> Nil,
          log |-> <<Request("put", keyPath(path) \o <<"/">>)>>]

----------------------------------------------------------------------------
(* The object-store backend as a state machine *)

S3MaxLen == 2       \* bytes of the largest object

\* the keys an unknown earlier writer may have left in the bucket
SeedKeys ==
    { <<"a">>, <<"a", "/">>, <<"a", "1", "/">>,
      <<"a", "/", "b">>, <<"a", "/", "b", "/">> }

Seed(keys) ==
    [k \in keys |-> IF Last(k) = "/" THEN <<>> ELSE <<1>>]

S3Paths == { <<"", "">>, <<"", "a">>, <<"", "a1">>, <<"", "a", "b">> }
S3FilePaths == { <<"", "a">>, <<"", "a", "b">> }
S3MovePairs ==
    { << <<"", "a">>, <<"", "a", "b">> >>,
      << <<"", "a", "b">>, <<"", "a">> >> }
S3Sources == SeqsUpTo(Bytes, S3MaxLen) \ {<<>>}

Failures == { {}, {"list"}, {"put"}, {"copy"}, {"delete"}, {"get"} }
Envs == [fail : Failures, page : 1..MaxPage]

\* the environments of a call that sends only the given requests
EnvsFor(calls) ==
    {env \in Envs : /\ env.fail \subseteq calls
                    /\ "list" \in calls \/ env.page = 1}

S3Init ==
    /\ nodes = Mem
    /\ files = <<>>
    /\ sub = NoSub
    /\ hist = <<>>
    /\ ret = Ret("", <<>>, Nil)
    /\ bucket \in {Seed(keys) : keys \in SUBSET SeedKeys}
    /\ log = <<>>
    /\ s3files = <<>>
    /\ readers = <<>>
    /\ callers = <<>>

S3Returned(r, op, args) ==
    /\ bucket' = r.bucket
    /\ log' = r.log
    /\ ret' = Ret(op, args, r.err)
    /\ UNCHANGED <<nodes, files, sub, hist, s3files, readers, callers>>

S3Copy(p, source, env) ==
    \E r \in {s3Copy(bucket, p, source, env)} :
        S3Returned(r, "copy", <<p, source, env.fail>>)

S3Move(p, q, env) ==
    \E r \in {s3Move(bucket, p, q, env)} :
        S3Returned(r, "move", <<p, q, env.fail>>)

S3Remove(p, env) ==
    \E r \in {s3Remove(bucket, p, env)} :
        S3Returned(r, "remove", <<p, env.fail>>)

S3Mkdir(p, env) ==
    \E r \in {s3Mkdir(bucket, p, env)} :
        S3Returned(r, "mkdir", <<p, env.fail>>)

\* Stat, Readdir and Open leave the store as it is; their results are the
\* operators s3Stat, s3Readdir and s3Open of the state
S3Stat(p, env) ==
    /\ s3Stat(bucket, p, env).err
          \in {Nil, s3Err("stat", keyPath(p), NotFoundError),
               s3Err("stat", keyPath(p), RequestError)}
    /\ UNCHANGED vars

S3Readdir(p, env) ==
    /\ s3Readdir(bucket, p, env).err
          \in {Nil, s3Err("open", readdirPrefix(p), NotFoundError), RequestError}
    /\ UNCHANGED vars

S3Open(p, env) ==
    /\ s3Open(bucket, p, env).err
          \in {Nil, s3Err("open", keyPath(p), NotFoundError),
               s3Err("open", keyPath(p), RequestError)}
    /\ UNCHANGED vars

S3Next ==
    \/ \E p \in S3FilePaths, source \in S3Sources, env \in EnvsFor({"put"}) :
          S3Copy(p, source, env)
    \/ \E pq \in S3MovePairs, env \in EnvsFor({"copy", "list", "delete"}) :
          S3Move(pq[1], pq[2], env)
    \/ \E p \in S3Paths, env \in EnvsFor({"list", "delete"}) : S3Remove(p, env)
    \/ \E p \in S3FilePaths, env \in EnvsFor({"put"}) : S3Mkdir(p, env)
    \/ \E p \in S3Paths, env \in EnvsFor({"list"}) : S3Stat(p, env)
    \/ \E p \in S3Paths, env \in EnvsFor({"list"}) : S3Readdir(p, env)
    \/ \E p \in S3Paths, env \in EnvsFor({"get"}) : S3Open(p, env)

S3Spec == S3Init /\ [][S3Next]_vars

----------------------------------------------------------------------------
(* Claims about the object-store backend *)

\* the requests of the call all succeed
Succeeds(env) == env.fail = {}

\* some stored key starts with the string
KeyUnder(b, prefix) == \E key \in DOMAIN b : hasPrefix(key, prefix)

NotFoundAt(err, op, p) == err = PathError(op, Text(p), ErrNoFile)

StatAnswers(b, p, st) ==
    IF KeyUnder(b, keyPath(p) \o <<"/">>)
    THEN st.err = Nil /\ st.info = s3FileInfo(Spell(Base(p)), TRUE, 0)
    ELSE IF keyPath(p) \in DOMAIN b
    THEN /\ st.err = Nil
         /\ ~st.info.isDir
         /\ st.info.size = Len(b[keyPath(p)])
    ELSE NotFoundAt(st.err, "stat", p)

(***************************************************************************)
(* C17.  Object-store backend, over any set of stored keys: Stat(p), with  *)
(* k the key of p, returns a directory entry named base(p) iff some stored *)
(* key starts with k + "/"; otherwise a file entry with that object's size *)
(* iff a stored key equals k; otherwise a not-found error tagged "stat"    *)
(* with path p.  Keys that merely share k as a string prefix (such as      *)
(* "a1/" when statting "/a") are not consulted by StatAnswers, so they     *)
(* cannot change the result.  p ranges over normalized absolute paths and  *)
(* the listing is split into pages of every size.                          *)
(***************************************************************************)
C17_StatByKeys ==
    \A p \in S3Paths, env \in EnvsFor({"list"}) :
        Succeeds(env) => StatAnswers(bucket, p, s3Stat(bucket, p, env))

\* the part of a stored key after the prefix, for the keys that start with it
Rests(b, prefix) ==
    {trimPrefix(key, prefix) : key \in {k \in DOMAIN b : hasPrefix(k, prefix)}}

\* the first segments s with a key prefix + s + "/" ..., and the names s of
\* the keys prefix + s with s non-empty and free of the delimiter
DirNames(b, prefix) ==
    {SubSeq(rest, 1, Index(rest, <<"/">>) - 1) :
        rest \in {r \in Rests(b, prefix) : Index(r, <<"/">>) # 0}}
FileNames(b, prefix) ==
    {rest \in Rests(b, prefix) : rest # <<>> /\ Index(rest, <<"/">>) = 0}

NamesOf(infos, isDir) ==
    {infos[i].name : i \in {j \in DOMAIN infos : infos[j].isDir = isDir}}
CountOf(infos, isDir) ==
    Cardinality({j \in DOMAIN infos : infos[j].isDir = isDir})

AscendingNames(infos) ==
    \A i, j \in DOMAIN infos : i < j => ~stringLess(infos[j].name, infos[i].name)

Lists(b, prefix, rd) ==
    IF ~KeyUnder(b, prefix)
    THEN rd.err.op = "open" /\ rd.err.cause = ErrNoFile
    ELSE /\ rd.err = Nil
         /\ AscendingNames(rd.infos)
         /\ NamesOf(rd.infos, TRUE) = DirNames(b, prefix)
         /\ CountOf(rd.infos, TRUE) = Cardinality(DirNames(b, prefix))
         /\ NamesOf(rd.infos, FALSE) = FileNames(b, prefix)
         /\ CountOf(rd.infos, FALSE) = Cardinality(FileNames(b, prefix))
         /\ \A i \in DOMAIN rd.infos :
               ~rd.infos[i].isDir
                  => rd.infos[i].size = Len(b[prefix \o rd.infos[i].name])

\* after a Mkdir(d) that succeeded where no key was stored under d, in every
\* environment Readdir(d) returns the empty list and Stat(d) a directory
MkdirAlone ==
    (/\ ret'.op = "mkdir"
     /\ ret'.err = Nil
     /\ ~KeyUnder(bucket, keyPath(ret'.args[1]) \o <<"/">>))
        => \A env \in EnvsFor({"list"}) :
              Succeeds(env)
                 => /\ s3Readdir(bucket', ret'.args[1], env).err = Nil
                    /\ s3Readdir(bucket', ret'.args[1], env).infos = <<>>
                    /\ s3Stat(bucket', ret'.args[1], env).err = Nil
                    /\ s3Stat(bucket', ret'.args[1], env).info.isDir

DirPrefix(d) == IF keyPath(d) = <<>> THEN <<>> ELSE keyPath(d) \o <<"/">>

StatNotFound(b, p) ==
    \A env \in EnvsFor({"list"}) :
        Succeeds(env) => /\ s3Stat(b, p, env).err.op = "stat"
                         /\ s3Stat(b, p, env).err.cause = ErrNoFile

Sent(requests, call) == \E i \in DOMAIN requests : requests[i].call = call

(***************************************************************************)
(* C19.  Object-store backend: whenever Remove(p) returns nil and no other *)
(* writer intervenes, a following Stat(p) fails with not-found, for p a    *)
(* file, a directory consisting only of its marker key, and a directory    *)
(* that still has keys beneath it; and Remove(p) on a path for which       *)
(* Stat(p) is not-found returns a not-found error tagged "remove" without  *)
(* issuing a delete.                                                       *)
(***************************************************************************)
C19_RemoveThenStatNotFound ==
    [][ret'.op = "remove"
          => /\ ret'.err = Nil => StatNotFound(bucket', ret'.args[1])
             /\ (Succeeds([fail |-> ret'.args[2]])
                   /\ StatNotFound(bucket, ret'.args[1]))
                   => /\ ret'.err.op = "remove"
                      /\ ret'.err.cause = ErrNoFile
                      /\ ~Sent(log', "delete")
                      /\ bucket' = bucket]_vars

\* the copy step of Move(src, dst) succeeds from bucket b when the requests
\* in fail do not succeed
Copies(b, src, fail) == "copy" \notin fail /\ keyPath(src) \in DOMAIN b

MoveOutcome(src, dst, fail) ==
    /\ ~Copies(bucket, src, fail)
          => /\ ret'.err # Nil
             /\ ret'.err.op = "move"
             /\ bucket' = bucket
    /\ (Copies(bucket, src, fail) /\ ret'.err # Nil)
          => /\ ret'.err.op = "move"
             /\ keyPath(src) \in DOMAIN bucket'
             /\ keyPath(dst) \in DOMAIN bucket'
             /\ bucket'[keyPath(dst)] = bucket[keyPath(src)]
             /\ bucket'[keyPath(src)] = bucket[keyPath(src)]
    /\ (Copies(bucket, src, fail) /\ fail \cap {"list", "delete"} # {})
          => ret'.err # Nil
    /\ (Copies(bucket, src, fail) /\ fail \cap {"list", "delete"} = {})
          => /\ ret'.err = Nil
             /\ keyPath(dst) \in DOMAIN bucket'
             /\ bucket'[keyPath(dst)] = bucket[keyPath(src)]
             /\ keyPath(src) \notin DOMAIN bucket'

(***************************************************************************)
(* C20.  Object-store backend Move(src, dst) = copy then delete, with      *)
(* either step allowed to fail: if the copy fails, an error tagged "move"  *)
(* is returned and the key set is unchanged; if the copy succeeds and the  *)
(* delete fails, an error tagged "move" is returned and both the src key   *)
(* and the dst key exist with the same content (no rollback); if both      *)
(* succeed, nil is returned, dst holds the content src had, and the src    *)
(* key is gone.                                                            *)
(***************************************************************************)
C20_MoveCopyThenDelete ==
    [][ret'.op = "move"
          => MoveOutcome(ret'.args[1], ret'.args[2], ret'.args[3])]_vars

----------------------------------------------------------------------------
(***************************************************************************)
(* The object store's handles.  An s3File is a temporary file with its     *)
(* read/write offset; Write writes at the offset, Close rewinds, uploads   *)
(* the whole file under the key of the path and then closes the file.  An  *)
(* upload that fails may have read any part of the file.                   *)
(***************************************************************************)

S3MaxHandles == 1   \* handles returned by the object store's Create

s3File(path) == [tmp |-> <<>>, offset |-> 0, closed |-> FALSE, path |-> path]

\* os.File.Write at the file's offset
WriteAt(tmp, offset, p) ==
    SubSeq(tmp, 1, offset) \o p \o SubSeq(tmp, offset + Len(p) + 1, Len(tmp))

s3Write(f, p) ==
    IF f.closed THEN [file |-> f, err |-> BareError(ErrClosed)]
    ELSE [file |-> [f EXCEPT !.tmp = WriteAt(f.tmp, f.offset, p),
                             !.offset = f.offset + Len(p)],
          err |-> Nil]

\* Close that stores the object before it knows the upload went through
s3CloseStoresFirst(b, f, env, read) ==
    IF f.closed THEN [bucket |-> b, file |-> f, err |-> BareError(ErrClosed),
                      log |-> <<>>]
    ELSE IF "put" \in env.fail
    THEN [bucket |-> PutObject(b, keyPath(f.path), SubSeq(f.tmp, 1, read)),
          file |-> [f EXCEPT !.offset = read],
          err |-> s3Err("create", keyPath(f.path), RequestError),
          log |-> <<Request("put", keyPath(f.path))>>]
    ELSE [bucket |-> PutObject(b, keyPath(f.path), f.tmp),
          file |-> [f EXCEPT !.offset = Len(f.tmp), !.closed = TRUE],
          err |-> Nil,
          log |-> <<Request("put", keyPath(f.path))>>]

\* s3File.Close; read is how far a failing upload got in the file
s3Close(b, f, env, read) ==
    IF f.closed THEN [bucket |-> b, file |-> f, err |-> BareError(ErrClosed),
                      log |-> <<>>]
    ELSE IF "put" \in env.fail
    THEN [bucket |-> b,
          file |-> [f EXCEPT !.offset = read],
          err |-> s3Err("create", keyPath(f.path), RequestError),
          log |-> <<Request("put", keyPath(f.path))>>]
    ELSE [bucket |-> PutObject(b, keyPath(f.path), f.tmp),
          file |-> [f EXCEPT !.offset = Len(f.tmp), !.closed = TRUE],
          err |-> Nil,
          log |-> <<Request("put", keyPath(f.path))>>]

\* the paths given to Create: normalized and not
S3CreatePaths == { <<"", "a">>, <<"a", "", "b">> }

S3FileInit ==
    /\ nodes = Mem
    /\ files = <<>>
    /\ sub = NoSub
    /\ hist = <<>>
    /\ ret = Ret("", <<>>, Nil)
    /\ bucket \in {Seed(keys) : keys \in SUBSET {<<"a">>, <<"a", "/", "b">>}}
    /\ log = <<>>
    /\ s3files = <<>>
    /\ readers = <<>>
    /\ callers = <<>>

S3Handled(b, f, requests, op, args, err) ==
    /\ bucket' = b
    /\ s3files' = f
    /\ log' = requests
    /\ ret' = Ret(op, args, err)
    /\ UNCHANGED <<nodes, files, sub, hist, readers, callers>>

S3Create(p) ==
    /\ Len(s3files) < S3MaxHandles
    /\ S3Handled(bucket, Append(s3files, s3File(p)), <<>>, "create", <<p>>, Nil)

S3Write(h, p) ==
    /\ h \in DOMAIN s3files
    /\ s3files[h].offset + Len(p) <= S3MaxLen
    /\ \E r \in {s3Write(s3files[h], p)} :
          S3Handled(bucket, [s3files EXCEPT ![h] = r.file], <<>>,
                    "write", <<h, p>>, r.err)

S3Close(h, env) ==
    /\ h \in DOMAIN s3files
    /\ \E read \in 0 .. Len(s3files[h].tmp) :
       \E r \in {s3Close(bucket, s3files[h], env, read)} :
          S3Handled(r.bucket, [s3files EXCEPT ![h] = r.file], r.log,
                    "close", <<h, env.fail>>, r.err)

\* a Remove by the same caller while the handle is open
S3FileRemove(p, env) ==
    /\ \E r \in {s3Remove(bucket, p, env)} :
          S3Handled(r.bucket, s3files, r.log, "remove", <<p, env.fail>>, r.err)

S3FileNext ==
    \/ \E p \in S3CreatePaths : S3Create(p)
    \/ \E h \in 1 .. S3MaxHandles, p \in Chunks : S3Write(h, p)
    \/ \E h \in 1 .. S3MaxHandles, env \in EnvsFor({"put"}) : S3Close(h, env)
    \/ \E p \in S3FilePaths, env \in EnvsFor({"list", "delete"}) :
          S3FileRemove(p, env)
    \/ \E p \in S3FilePaths, env \in EnvsFor({"list"}) : S3Stat(p, env)
    \/ \E p \in S3FilePaths, env \in EnvsFor({"get"}) : S3Open(p, env)

S3FileSpec == S3FileInit /\ [][S3FileNext]_vars

\* Stat and Open of every path answer in b2 as they do in b1
SameAnswers(b1, b2) ==
    \A p \in S3FilePaths :
        /\ \A env \in EnvsFor({"list"}) :
              s3Stat(b2, p, env).info = s3Stat(b1, p, env).info
                 /\ s3Stat(b2, p, env).err = s3Stat(b1, p, env).err
        /\ \A env \in EnvsFor({"get"}) :
              s3Open(b2, p, env).data = s3Open(b1, p, env).data
                 /\ s3Open(b2, p, env).err = s3Open(b1, p, env).err

\* the handle the call of the step was made on, before the call
Handle == s3files[ret'.args[1]]

(***************************************************************************)
(* C21.  Object-store backend: between Create(p) and Close of the returned *)
(* handle the stored key set and contents are unchanged (an object already *)
(* stored at p stays readable with its old content, and Stat(p) gives the  *)
(* same answer as before Create), whatever is written to the handle; the   *)
(* key of p is written, with exactly the buffered bytes, only when Close   *)
(* uploads successfully, and a failed upload leaves the store unchanged    *)
(* and returns an error tagged "create".                                   *)
(***************************************************************************)
C21_UploadAtClose ==
    [][/\ ret'.op \in {"create", "write"}
            => bucket' = bucket /\ SameAnswers(bucket, bucket')
       /\ (ret'.op = "close" /\ ret'.err = Nil)
            => bucket' = PutObject(bucket, keyPath(Handle.path), Handle.tmp)
       /\ (ret'.op = "close" /\ ret'.err # Nil)
            => /\ bucket' = bucket
               /\ SameAnswers(bucket, bucket')
               /\ ~Handle.closed => ret'.err.op = "create"]_vars

\* a handle created for "/a" while an object of one byte was stored there
\* has been closed with two bytes written, and the object holds them
C21_Witness ==
    /\ ret.op = "close"
    /\ ret.err = Nil
    /\ s3files[1].path = <<"", "a">>
    /\ s3files[1].tmp = <<1, 1>>
    /\ bucket[<<"a">>] = <<1, 1>>

----------------------------------------------------------------------------
\* every way to cut a listing into consecutive non-empty pages; the store
\* answers an empty listing with one empty page
RECURSIVE Cuts(_)
Cuts(listing) ==
    IF listing = <<>> THEN {<<>>}
    ELSE UNION {{<<SubSeq(listing, 1, k)>> \o rest :
                    rest \in Cuts(SubSeq(listing, k + 1, Len(listing)))} :
                k \in 1 .. Len(listing)}

Pagings(listing) == IF listing = <<>> THEN {<<listing>>} ELSE Cuts(listing)

Listing(b, prefix) == Ordered(ListEntries(b, prefix))

\* each name that Readdir is to list occurs once, directories and files apart
ListedOnce(b, prefix, infos) ==
    /\ NamesOf(infos, TRUE) = DirNames(b, prefix)
    /\ CountOf(infos, TRUE) = Cardinality(DirNames(b, prefix))
    /\ NamesOf(infos, FALSE) = FileNames(b, prefix)
    /\ CountOf(infos, FALSE) = Cardinality(FileNames(b, prefix))

PagingFree(b, p) ==
    /\ \A pages \in Pagings(Listing(b, keyPath(p))) :
          s3StatIn(keyPath(p), Collected(pages))
             = s3StatIn(keyPath(p), Collected(<<Listing(b, keyPath(p))>>))
    /\ \A pages \in Pagings(Listing(b, readdirPrefix(p))) :
          /\ s3ReaddirIn(readdirPrefix(p), Collected(pages))
                = s3ReaddirIn(readdirPrefix(p),
                              Collected(<<Listing(b, readdirPrefix(p))>>))
          /\ AscendingNames(s3ReaddirIn(readdirPrefix(p), Collected(pages)).infos)
          /\ Listing(b, readdirPrefix(p)) # <<>>
                => ListedOnce(b, readdirPrefix(p),
                              s3ReaddirIn(readdirPrefix(p), Collected(pages)).infos)
    /\ \A env \in EnvsFor({"list"}) :
          Succeeds(env)
             => /\ s3Stat(b, p, env).info
                      = s3StatIn(keyPath(p),
                                 Collected(<<Listing(b, keyPath(p))>>)).info
                /\ s3Readdir(b, p, env).infos
                      = s3ReaddirIn(readdirPrefix(p),
                            Collected(<<Listing(b, readdirPrefix(p))>>)).infos
                /\ s3Readdir(b, p, env).err
                      = s3ReaddirIn(readdirPrefix(p),
                            Collected(<<Listing(b, readdirPrefix(p))>>)).err

(***************************************************************************)
(* C22.  Object-store backend: the results of Stat(p) and Readdir(d) do    *)
(* not depend on how the store splits the prefix listing into pages: for   *)
(* every partition of the same listing into one or more pages (any page    *)
(* size), Stat returns the same entry or not-found, and Readdir returns    *)
(* the same complete list in globally ascending name order, with no entry  *)
(* lost or repeated at a page boundary.                                    *)
(***************************************************************************)
C22_PagingDoesNotMatter == \A p \in S3Paths : PagingFree(bucket, p)

\* the root's listing has three entries, a file between two prefix groups,
\* so that pages of one and of two entries cut it in different places
C22_Witness ==
    /\ DOMAIN bucket = {<<"a">>, <<"a", "/", "b">>, <<"a", "1", "/">>}
    /\ Len(Listing(bucket, <<>>)) = 3
    /\ Cardinality(Pagings(Listing(bucket, <<>>))) = 4
    /\ Len(s3Readdir(bucket, <<"", "">>, [fail |-> {}, page |-> 1]).infos) = 3
    /\ ret.op = "remove"

----------------------------------------------------------------------------
(***************************************************************************)
(* The utilities layered on a FileSystem: MkdirAll and Walk.  Walk hands   *)
(* its visitor, and recurses into, Subtrees of Subtrees; such a FileSystem *)
(* is modelled by its chain of roots, outermost first: <<>> is the tree    *)
(* backend itself and <<r1, r2>> is Subtree(Subtree(fs, r1), r2).          *)
(***************************************************************************)

UtilMaxNodes == 5   \* live nodes, the root included

\* MkdirAll from the i-th directory on; parts is Split(Clean("/" + path)[1:])
RECURSIVE MkdirAllFrom(_, _, _)
MkdirAllFrom(n, parts, i) ==
    IF i > Len(parts) THEN [nodes |-> n, err |-> Nil]
    ELSE With(Mkdir(n, <<"">> \o SubSeq(parts, 1, i)), LAMBDA r :
             IF r.err # Nil THEN r ELSE MkdirAllFrom(r.nodes, parts, i + 1))

\* MkdirAll that makes the deepest directory only
MkdirLast(n, path) == Mkdir(n, Norm(path))

MkdirAll(n, path) == MkdirAllFrom(n, Tail(Norm(path)), 1)

\* the path the backend gets for a path given to the chain
RECURSIVE chainMapPath(_, _)
chainMapPath(chain, path) ==
    IF chain = <<>> THEN path
    ELSE chainMapPath(Front(chain), mapPath(Last(chain), path))

\* the backend's error as the chain returns it
RECURSIVE chainUnmapError(_, _)
chainUnmapError(chain, err) ==
    IF chain = <<>> THEN err
    ELSE chainUnmapError(Tail(chain), unmapError(Head(chain), err))

chainStat(n, chain, path) ==
    With(Stat(n, chainMapPath(chain, path)), LAMBDA r :
        [r EXCEPT !.err = chainUnmapError(chain, @)])

chainReaddir(n, chain, path) ==
    IF chain = <<>> THEN Readdir(n, path)
    ELSE With(Readdir(n, chainMapPath(chain, path)), LAMBDA r :
             [r EXCEPT !.err = chainUnmapError(chain, @)])

\* Subtree(fs, root) for the FileSystem fs given by chain
chainSubtree(n, chain, root) ==
    IF root = <<"">> THEN [chain |-> chain, err |-> Nil]
    ELSE With(chainStat(n, chain, root), LAMBDA mount :
             IF mount.err # Nil THEN [chain |-> chain, err |-> mount.err]
             ELSE IF ~n[mount.node].isDir
             THEN [chain |-> chain, err |-> PathError("stat", root, ErrNotDir)]
             ELSE [chain |-> Append(chain, root), err |-> Nil])

\* A visitor is given by the nodes it returns an error for; it has no other
\* effect.  Returns is the value walkFn returns for node id.
ErrVisitor == "ErrVisitor"
NilVisitor == {}
Returns(walkFn, id) == IF id \in walkFn THEN BareError(ErrVisitor) ELSE Nil

\* a call of the visitor: the FileSystem and the entry it is given, and the
\* value it returned
Visited(chain, id, result) == [chain |-> chain, node |-> id, result |-> result]

Walked(visits, err, endless) == [visits |-> visits, err |-> err, endless |-> endless]

\* Walk.  A call nested deeper than there are nodes has come back to a
\* directory it is already walking and will never return: endless.  walkOver
\* is the loop over the entries from the one at the head of infos on.
RECURSIVE Walk(_, _, _, _)
RECURSIVE walkOver(_, _, _, _, _)
RECURSIVE walkOverStopping(_, _, _, _, _)
Walk(n, chain, depth, walkFn) ==
    IF depth > Cardinality(DOMAIN n) THEN Walked(<<>>, Nil, TRUE)
    ELSE With(chainReaddir(n, chain, <<".">>), LAMBDA rd :
             IF rd.err # Nil THEN Walked(<<>>, rd.err, FALSE)
             ELSE walkOver(n, chain, rd.infos, depth, walkFn))

\* the loop of a Walk that returns what the visitor or the Walk of a
\* subdirectory returned, if not nil, as filepath.Walk does
walkOverStopping(n, chain, infos, depth, walkFn) ==
    IF infos = <<>> THEN Walked(<<>>, Nil, FALSE)
    ELSE With(Visited(chain, Head(infos), Returns(walkFn, Head(infos))), LAMBDA v :
         IF v.result # Nil THEN Walked(<<v>>, v.result, FALSE)
         ELSE IF ~n[Head(infos)].isDir
         THEN With(walkOverStopping(n, chain, Tail(infos), depth, walkFn), LAMBDA rest :
                  Walked(<<v>> \o rest.visits, rest.err, rest.endless))
         ELSE With(chainSubtree(n, chain, Str(n[Head(infos)].name)), LAMBDA tree :
                  IF tree.err # Nil THEN Walked(<<v>>, tree.err, FALSE)
                  ELSE With(Walk(n, tree.chain, depth + 1, walkFn), LAMBDA inner :
                       IF inner.endless \/ inner.err # Nil
                       THEN Walked(<<v>> \o inner.visits, inner.err, inner.endless)
                       ELSE With(walkOverStopping(n, chain, Tail(infos), depth, walkFn),
                                 LAMBDA rest :
                            Walked(<<v>> \o inner.visits \o rest.visits,
                                   rest.err, rest.endless)))))

walkOver(n, chain, infos, depth, walkFn) ==
    IF infos = <<>> THEN Walked(<<>>, Nil, FALSE)
    ELSE With(Visited(chain, Head(infos), Returns(walkFn, Head(infos))), LAMBDA v :
         IF ~n[Head(infos)].isDir
         THEN With(walkOver(n, chain, Tail(infos), depth, walkFn), LAMBDA rest :
                  Walked(<<v>> \o rest.visits, rest.err, rest.endless))
         ELSE With(chainSubtree(n, chain, Str(n[Head(infos)].name)), LAMBDA tree :
                  IF tree.err # Nil THEN Walked(<<v>>, tree.err, FALSE)
                  ELSE With(Walk(n, tree.chain, depth + 1, walkFn), LAMBDA inner :
                       IF inner.endless
                       THEN Walked(<<v>> \o inner.visits, Nil, TRUE)
                       ELSE With(walkOver(n, chain, Tail(infos), depth, walkFn),
                                 LAMBDA rest :
                            Walked(<<v>> \o inner.visits \o rest.visits,
                                   rest.err, rest.endless)))))

----------------------------------------------------------------------------
(* The tree backend under the utilities, as a state machine *)

MkdirAllPaths ==
    { <<"", "a", "b", "c">>,    \* "/a/b/c"
      <<"a", "b">>,             \* "a/b"
      <<"", "b">>,              \* "/b"
      <<"", "">> }              \* "/"
UtilFilePaths == { <<"", "b">>, <<"", "c">>, <<"", "a", "b">> }
UtilRemovePaths == { <<"", "a">>, <<"", "a", "b">>, <<"", "b">> }

TreeMkdirAll(p) ==
    /\ Cardinality(DOMAIN nodes) + Len(Tail(Norm(p))) <= UtilMaxNodes
    /\ \E r \in {MkdirAll(nodes, p)} :
          Returned(r.nodes, files, "mkdirall", <<p>>, r.err)
    /\ UNCHANGED <<sub, hist, s3vars, readers, callers>>

TreeCopy(p, source) ==
    /\ CanAlloc(nodes, UtilMaxNodes)
    /\ \E r \in {Copy(nodes, p, source)} :
          Returned(r.nodes, files, "copy", <<p, source>>, r.err)
    /\ UNCHANGED <<sub, hist, s3vars, readers, callers>>

TreeRemove(p) ==
    /\ \E r \in {Remove(nodes, p)} :
          Returned(r.nodes, files, "remove", <<p>>, r.err)
    /\ UNCHANGED <<sub, hist, s3vars, readers, callers>>

\* Walk with a visitor that returns nil; Walk assigns to nothing
TreeWalk ==
    /\ \E w \in {Walk(nodes, <<>>, 1, NilVisitor)} : w.endless \in BOOLEAN
    /\ UNCHANGED vars

UtilNext ==
    \/ \E p \in MkdirAllPaths : TreeMkdirAll(p)
    \/ \E p \in UtilFilePaths : TreeCopy(p, <<1>>)
    \/ \E p \in UtilRemovePaths : TreeRemove(p)
    \/ TreeWalk

UtilSpec == Init /\ [][UtilNext]_vars

----------------------------------------------------------------------------
(* Claims about the utilities *)

PathA == <<"", "a">>
PathAB == <<"", "a", "b">>
PathABC == <<"", "a", "b", "c">>

\* the number of entries Readdir lists for p
Entries(n, p) == Len(Readdir(n, p).infos)

IsDirAt(n, p) == Exists(n, p) /\ n[Stat(n, p).node].isDir

\* C23: MkdirAll("/a/b/c") where /a does not exist (so none of the three
\* does) returns nil; afterwards /a, /a/b and /a/b/c are each Stat-able as a
\* directory, the root has one entry more than before, /a and /a/b have one
\* entry each, and Readdir("/a/b/c") is an empty list and a nil error.
C23_MkdirAll ==
    [][(ret'.op = "mkdirall" /\ ret'.args = <<PathABC>> /\ ~Exists(nodes, PathA))
        => /\ ret'.err = Nil
           /\ \A p \in {PathA, PathAB, PathABC} : IsDirAt(nodes', p)
           /\ Entries(nodes', RootPath) = Entries(nodes, RootPath) + 1
           /\ Entries(nodes', PathA) = 1
           /\ Entries(nodes', PathAB) = 1
           /\ Readdir(nodes', PathABC) = [infos |-> <<>>, err |-> Nil]]_vars

\* MkdirAll("/a/b/c") has returned nil in a root that holds other entries,
\* and holds one "a" only: no /a was there before the call
C23_Witness ==
    /\ Did("mkdirall") /\ ret.args = <<PathABC>>
    /\ Entries(nodes, RootPath) >= 2
    /\ Cardinality({k \in 1 .. Entries(nodes, RootPath) :
                      nodes[Readdir(nodes, RootPath).infos[k]].name = "a"}) = 1
    /\ IsDirAt(nodes, PathABC)


\* no directory holds two children of one name
UniqueSiblings(n) ==
    \A d \in DOMAIN n : \A k, l \in 1 .. Len(n[d].children) :
        n[n[d].children[k]].name = n[n[d].children[l]].name => k = l

\* the nodes beneath directory d
Beneath(n, d) == {Visit(n, <<>>, n[d].children)[k] :
                     k \in 1 .. Len(Visit(n, <<>>, n[d].children))}

\* the calls of the visitor, by their place in the walk, made for node id
VisitsOf(w, id) == {k \in 1 .. Len(w.visits) : w.visits[k].node = id}

\* the walk w of tree n returned nil after one visit of every node other than
\* the root, a directory before the nodes beneath it and siblings by name
WalkedInOrder(n, w) ==
    /\ ~w.endless
    /\ w.err = Nil
    /\ VisitsOf(w, Root) = {}
    /\ \A id \in DOMAIN n \ {Root} : Cardinality(VisitsOf(w, id)) = 1
    /\ \A d \in DOMAIN n \ {Root} : \A x \in Beneath(n, d) :
           \A i \in VisitsOf(w, d), j \in VisitsOf(w, x) : i < j
    /\ \A d \in DOMAIN n : \A k, l \in 1 .. Len(n[d].children) :
           Less(n, n[d].children[k], n[d].children[l])
              => \A i \in VisitsOf(w, n[d].children[k]),
                    j \in VisitsOf(w, n[d].children[l]) : i < j

\* C24: in a tree whose siblings have unique names, Walk calls the visitor
\* exactly once for every node below the root and never for the root, visits
\* a directory before the nodes beneath it and siblings by ascending name,
\* and returns nil.
C24_WalkVisitsAll ==
    UniqueSiblings(nodes) => WalkedInOrder(nodes, Walk(nodes, <<>>, 1, NilVisitor))


\* the visitor's Stat of the entry's name in the FileSystem it was handed
StatInVisit(n, v) == chainStat(n, v.chain, Str(n[v.node].name))

\* C25: at every call of the visitor, at any nesting depth, Stat of the
\* entry's name in the FileSystem handed to the visitor returns nil and the
\* metadata (name, directory flag, size) of the node being visited.
C25_WalkScoping ==
    \A k \in 1 .. Len(Walk(nodes, <<>>, 1, NilVisitor).visits) :
        With(Walk(nodes, <<>>, 1, NilVisitor).visits[k], LAMBDA v :
            /\ StatInVisit(nodes, v).err = Nil
            /\ Info(nodes, StatInVisit(nodes, v).node) = Info(nodes, v.node))


----------------------------------------------------------------------------
(* Claims about the tree backend as a whole *)

\* paths written in other ways than their normal form
UncleanPaths ==
    { <<".">>,                  \* "."
      <<"">>,                   \* ""
      <<"", "">>,               \* "/"
      <<"", "a", "">>,          \* "/a/"
      <<"", "a", ".">>,         \* "/a/."
      <<"", "a", "b", "..">>,   \* "/a/b/.."
      <<"a", "b">>,             \* "a/b"
      <<"a", "..", "b">> }      \* "a/../b"

\* two calls on one tree returned alike: both nil or both an error, with the
\* same value and the same tree left behind
Alike(r1, r2) ==
    /\ (r1.err = Nil) = (r2.err = Nil)
    /\ [r1 EXCEPT !.err = Nil] = [r2 EXCEPT !.err = Nil]

SameOpen(n, p) == Alike(Open(n, p), Open(n, Norm(p)))
SameCreate(n, p) == Alike(Create(n, p), Create(n, Norm(p)))
SameRemove(n, p) == Alike(Remove(n, p), Remove(n, Norm(p)))
SameStat(n, p) == Alike(Stat(n, p), Stat(n, Norm(p)))
SameReaddir(n, p) == Alike(Readdir(n, p), Readdir(n, Norm(p)))
SameMkdir(n, p) == Alike(Mkdir(n, p), Mkdir(n, Norm(p)))
SameMove(n, p, q) == Alike(Move(n, p, q), Move(n, Norm(p), Norm(q)))

\* C26: every operation called with a path p returns the same success
\* result and has the same effect on the tree as called with the normalized
\* path clean("/" + p).
C26_PathNormalization ==
    /\ \A p \in UncleanPaths :
          /\ SameOpen(nodes, p) /\ SameCreate(nodes, p) /\ SameRemove(nodes, p)
          /\ SameStat(nodes, p) /\ SameReaddir(nodes, p) /\ SameMkdir(nodes, p)
    /\ \A p, q \in UncleanPaths : SameMove(nodes, p, q)


\* paths by which the nodes of the trees under the wrapper are looked at
ProbePaths ==
    { <<"", "">>, <<"", "a">>, <<"", "b">>, <<"", "a", "a">>, <<"", "a", "b">> }

\* the node at q is in n2 what it was in n1: there or not, with the same
\* metadata, bytes and entries
Unchanged(n1, n2, q) ==
    /\ Exists(n1, q) = Exists(n2, q)
    /\ Exists(n1, q) =>
          /\ Seen(n1, q) = Seen(n2, q)
          /\ [k \in 1 .. Entries(n1, q) |-> Info(n1, Readdir(n1, q).infos[k])]
                = [k \in 1 .. Entries(n2, q) |-> Info(n2, Readdir(n2, q).infos[k])]

\* the wrapper's Remove("") is the step being taken, its root a directory
RemovesOwnRoot ==
    /\ sub # NoSub /\ IsDirAt(nodes, sub)
    /\ ret'.op = "remove" /\ ret'.args = << <<"">> >>

\* C27: Remove("") on the wrapper of an existing directory r returns nil;
\* afterwards Stat(r) on the backend is not-found, the parent of r lists one
\* entry fewer, and every node that is neither r, beneath r, nor r's parent
\* is as it was.
C27_RemoveOwnRoot ==
    [][RemovesOwnRoot =>
          /\ ret'.err = Nil
          /\ NotFound(nodes', sub)
          /\ Entries(nodes', PathDir(Norm(sub)))
                = Entries(nodes, PathDir(Norm(sub))) - 1
          /\ \A q \in ProbePaths :
                ~AtOrBeneath(sub, q) /\ ~AtOrBeneath(q, sub)
                   => Unchanged(nodes, nodes', q)]_vars


\* the nodes the root reaches
Reachable(n) == {Visit(n, <<>>, <<Root>>)[k] : k \in 1 .. Len(Visit(n, <<>>, <<Root>>))}

\* the places that hold node x: a directory and an index into its children
PlacesOf(n, x) ==
    {pl \in (DOMAIN n) \X (1 .. Cardinality(DOMAIN n) + 1) :
        pl[2] <= Len(n[pl[1]].children) /\ n[pl[1]].children[pl[2]] = x}

\* parent-to-children is a strict tree: no node beneath itself, none held
\* in two places
StrictTree(n) ==
    /\ \A d \in DOMAIN n : d \notin Beneath(n, d)
    /\ \A x \in DOMAIN n : Cardinality(PlacesOf(n, x)) <= 1

\* the node Move(srcPath, ...) detaches from its parent
MovedNode(n, srcPath) ==
    n[parentNode(n, srcPath)].children[
        Least(Named(n, parentNode(n, srcPath), Base(srcPath)))]

\* the step is a Move that returns nil
MoveReturnsNil == ret'.op = "move" /\ ret'.err = Nil

\* C28: whatever was called, the parent-to-children relation over the live
\* nodes is a strict tree (no node its own ancestor, none a child twice), and
\* a Move that returns nil leaves the node it moved reachable from the root.
C28_StrictTree ==
    /\ []StrictTree(nodes)
    /\ [][MoveReturnsNil =>
             MovedNode(nodes, ret'.args[1])
                \in Reachable(Move(nodes, ret'.args[1], ret'.args[2]).nodes)]_vars


----------------------------------------------------------------------------
(***************************************************************************)
(* Readers.  Open returns a bytes.Reader over the slice the node holds:    *)
(* a reader is the node whose bytes it reads.  A reader keeps its node     *)
(* alive after the tree has let go of it.  path and snap are history: the  *)
(* path that was opened and the bytes the file had when Open returned.     *)
(***************************************************************************)

MaxReaders == 1
SnapMaxNodes == 3

\* MemNode.Content
Content(mn, path, bytes) == [node |-> mn, path |-> path, snap |-> bytes]

\* the bytes a Read of all of reader r returns
ReadAll(n, r) == n[r.node].content

\* the state after a call that left heap n, handles f and readers rd
SnapReturned(n, f, rd, op, args, err) ==
    \E c \in {Collect(n, f \o [k \in 1 .. Len(rd) |-> [dir |-> rd[k].node]])} :
        /\ nodes' = c.nodes
        /\ files' = SubSeq(c.files, 1, Len(f))
        /\ readers' = [k \in 1 .. Len(rd) |->
                          [rd[k] EXCEPT !.node = c.files[Len(f) + k].dir]]
        /\ ret' = Ret(op, args, err)

SnapOpen(p) ==
    /\ Len(readers) < MaxReaders
    /\ \E r \in {Open(nodes, p)} :
          SnapReturned(nodes, files,
                       IF r.err = Nil
                       THEN Append(readers,
                                   Content(childByPath(nodes, Norm(p)), p, r.content))
                       ELSE readers,
                       "open", <<p>>, r.err)
    /\ UNCHANGED <<sub, hist, s3vars, callers>>

\* ByteReaderCloser.Close, after which the caller drops the reader
SnapRelease(k) ==
    /\ SnapReturned(nodes, files,
                    SubSeq(readers, 1, k - 1) \o SubSeq(readers, k + 1, Len(readers)),
                    "release", <<k>>, Nil)
    /\ UNCHANGED <<sub, hist, s3vars, callers>>

SnapCreate(p) ==
    /\ Len(files) < MaxHandles
    /\ \E r \in {Create(nodes, p)} :
          SnapReturned(r.nodes,
                       IF r.err = Nil THEN Append(files, r.file) ELSE files,
                       readers, "create", <<p>>, r.err)
    /\ UNCHANGED <<sub, hist, s3vars, callers>>

SnapClose(h) ==
    /\ files[h].closed \/ CanAlloc(nodes, SnapMaxNodes)
    /\ \E r \in {Close(nodes, files[h])} :
          SnapReturned(r.nodes, [files EXCEPT ![h] = r.file], readers,
                       "close", <<h>>, r.err)
    /\ UNCHANGED <<sub, hist, s3vars, callers>>

SnapCopy(p, source) ==
    /\ CanAlloc(nodes, SnapMaxNodes)
    /\ \E r \in {Copy(nodes, p, source)} :
          SnapReturned(r.nodes, files, readers, "copy", <<p, source>>, r.err)
    /\ UNCHANGED <<sub, hist, s3vars, callers>>

SnapMove(p, q) ==
    /\ \E r \in {Move(nodes, p, q)} :
          SnapReturned(r.nodes, files, readers, "move", <<p, q>>, r.err)
    /\ UNCHANGED <<sub, hist, s3vars, callers>>

SnapRemove(p) ==
    /\ \E r \in {Remove(nodes, p)} :
          SnapReturned(r.nodes, files, readers, "remove", <<p>>, r.err)
    /\ UNCHANGED <<sub, hist, s3vars, callers>>

SnapStat(p) ==
    /\ \E r \in {Stat(nodes, p)} :
          SnapReturned(nodes, files, readers, "stat", <<p>>, r.err)
    /\ UNCHANGED <<sub, hist, s3vars, callers>>

SnapReaddir(p) ==
    /\ \E r \in {Readdir(nodes, p)} :
          SnapReturned(nodes, files, readers, "readdir", <<p>>, r.err)
    /\ UNCHANGED <<sub, hist, s3vars, callers>>

SnapPaths == { <<"", "a">>, <<"", "b">> }
SnapMovePairs == { << <<"", "a">>, <<"", "b">> >>, << <<"", "b">>, <<"", "a">> >> }

SnapNext ==
    \/ \E p \in SnapPaths : SnapOpen(p)
    \/ \E k \in 1 .. Len(readers) : SnapRelease(k)
    \/ \E p \in SnapPaths : SnapCreate(p)
    \/ \E h \in 1 .. Len(files), b \in Chunks : CallWrite(h, b)
    \/ \E h \in 1 .. Len(files) : SnapClose(h)
    \/ \E p \in SnapPaths, c \in Contents : SnapCopy(p, c)
    \/ \E m \in SnapMovePairs : SnapMove(m[1], m[2])
    \/ \E p \in SnapPaths : SnapRemove(p)
    \/ \E p \in SnapPaths : SnapStat(p)
    \/ \E p \in SnapPaths : SnapReaddir(p)

SnapSpec == Init /\ [][SnapNext]_vars

\* C29: what a reader returned by Open(p) reads is the content the file at p
\* had when Open returned, whatever was called since (Create, Write, Close,
\* Copy, Remove, Move on that path or another); and an Open, Stat or Readdir
\* leaves the tree as it was.
C29_OpenSnapshot ==
    /\ [](\A k \in 1 .. Len(readers) : ReadAll(nodes, readers[k]) = readers[k].snap)
    /\ [][ret'.op \in {"open", "stat", "readdir"} => nodes' = nodes]_vars

\* a reader of /a holds one byte while /a, written anew, is empty
C29_Witness ==
    /\ Did("close")
    /\ \E k \in 1 .. Len(readers) :
          /\ readers[k].path = <<"", "a">>
          /\ ReadAll(nodes, readers[k]) = <<1>>
    /\ Open(nodes, <<"", "a">>) = [content |-> <<>>, err |-> Nil]


----------------------------------------------------------------------------
(***************************************************************************)
(* Two callers on one directory.  MemNode has no lock: Remove and Close    *)
(* read and write dir.children in separate steps, and the steps of two     *)
(* goroutines interleave.  One caller runs Remove(x) on the root, the      *)
(* other Close on a handle for y in the root.  callers.locked tells        *)
(* whether the callers wrap each call in a lock of their own; holder is    *)
(* the caller inside it, if any.  No node is collected before both calls  *)
(* have returned: the lists the callers hold refer to the nodes.           *)
(***************************************************************************)

RaceNames == {"a", "b"}

\* a root holding the files named in the sequence names
RaceMem(names) ==
    [i \in 0 .. Len(names) |->
        IF i = Root THEN MemNode("", TRUE, <<>>, [k \in 1 .. Len(names) |-> k])
        ELSE File(names[i], <<>>)]

RaceTrees == {RaceMem(s) : s \in {<<>>, <<"a">>, <<"b">>, <<"a", "b">>, <<"b", "a">>}}

Remover == "remover"
Closer == "closer"
Nobody == "nobody"

RaceInit ==
    /\ nodes \in RaceTrees
    /\ \E y \in RaceNames :
          files = <<[closed |-> FALSE, content |-> <<>>, dir |-> Root, path |-> y]>>
    /\ \E x \in RaceNames, l \in BOOLEAN :
          callers = [locked |-> l, holder |-> Nobody, x |-> x,
                     rm |-> [pc |-> "range", children |-> <<>>, err |-> Nil],
                     cl |-> [pc |-> "read", children |-> <<>>, err |-> Nil]]
    /\ sub = NoSub
    /\ hist = <<>>
    /\ ret = Ret("", <<>>, Nil)
    /\ bucket = <<>>
    /\ log = <<>>
    /\ s3files = <<>>
    /\ readers = <<>>

\* caller c may take a step: no lock is used, or the lock is free or its own
MayStep(c) == ~callers.locked \/ callers.holder \in {Nobody, c}

\* the holder of the lock once c has taken a step that left it at pc
Holder(c, pc) == IF callers.locked /\ pc # "done" THEN c ELSE Nobody

\* Remove: the loop that collects the children not named base
removeRange(n, dir, base) == SelectSeq(n[dir].children, LAMBDA c : n[c].name # base)

\* Close: the children written back, without the new node
closeDropsNode(children, id) == children

\* Close: the children written back
closeAppend(children, id) == Append(children, id)

RaceRemoveRange ==
    /\ callers.rm.pc = "range" /\ MayStep(Remover)
    /\ callers' = [callers EXCEPT
                      !.rm.children = removeRange(nodes, Root, callers.x),
                      !.rm.pc = "compare",
                      !.holder = Holder(Remover, "compare")]
    /\ UNCHANGED <<nodes, files, sub, ret, hist, s3vars, readers>>

\* len(children) == len(dir.children), with dir.children read again
RaceRemoveCompare ==
    /\ callers.rm.pc = "compare" /\ MayStep(Remover)
    /\ IF Len(callers.rm.children) = Len(nodes[Root].children)
       THEN callers' = [callers EXCEPT
                           !.rm.pc = "done",
                           !.rm.err = PathError("remove", <<"", callers.x>>, ErrNoFile),
                           !.holder = Holder(Remover, "done")]
       ELSE callers' = [callers EXCEPT !.rm.pc = "write"]
    /\ UNCHANGED <<nodes, files, sub, ret, hist, s3vars, readers>>

RaceRemoveWrite ==
    /\ callers.rm.pc = "write" /\ MayStep(Remover)
    /\ nodes' = [nodes EXCEPT ![Root].children = callers.rm.children]
    /\ callers' = [callers EXCEPT !.rm.pc = "done", !.holder = Holder(Remover, "done")]
    /\ UNCHANGED <<files, sub, ret, hist, s3vars, readers>>

\* append(mf.dir.children, ...): the read of dir.children
RaceCloseRead ==
    /\ callers.cl.pc = "read" /\ MayStep(Closer)
    /\ callers' = [callers EXCEPT
                      !.cl.children = nodes[files[1].dir].children,
                      !.cl.pc = "write",
                      !.holder = Holder(Closer, "write")]
    /\ UNCHANGED <<nodes, files, sub, ret, hist, s3vars, readers>>

\* mf.dir.children = ...; mf.closed = true
RaceCloseWrite ==
    /\ callers.cl.pc = "write" /\ MayStep(Closer)
    /\ nodes' = [i \in DOMAIN nodes \cup {NewId(nodes)} |->
                    IF i = NewId(nodes)
                    THEN File(Base(Str(files[1].path)), files[1].content)
                    ELSE IF i = files[1].dir
                    THEN [nodes[i] EXCEPT
                             !.children = closeAppend(callers.cl.children, NewId(nodes))]
                    ELSE nodes[i]]
    /\ files' = [files EXCEPT ![1].closed = TRUE]
    /\ callers' = [callers EXCEPT !.cl.pc = "done", !.holder = Holder(Closer, "done")]
    /\ UNCHANGED <<sub, ret, hist, s3vars, readers>>

RaceNext ==
    \/ RaceRemoveRange
    \/ RaceRemoveCompare
    \/ RaceRemoveWrite
    \/ RaceCloseRead
    \/ RaceCloseWrite

RaceSpec == RaceInit /\ [][RaceNext]_vars

\* Remove(x) and Close of the handle for y, x other than y, have both
\* returned nil and the directory holds no y
LostUpdate ==
    /\ callers.x # files[1].path
    /\ callers.rm.pc = "done" /\ callers.rm.err = Nil
    /\ callers.cl.pc = "done" /\ callers.cl.err = Nil
    /\ Named(nodes, Root, files[1].path) = {}

\* C30: callers that run each call under a lock of theirs, so that each call
\* is atomic, never reach a lost update; callers that do not can reach one
\* (the witness).
C30_LostUpdateOnlyUnlocked == callers.locked => ~LostUpdate

\* without a lock, Remove("/a") of the file a that was there and Close of the
\* handle for b have both returned nil and the root holds neither a nor b
C30_Witness ==
    /\ ~callers.locked /\ LostUpdate /\ callers.x = "a"
    /\ \E i \in DOMAIN nodes : nodes[i].name = "a"
    /\ nodes[Root].children = <<>>


----------------------------------------------------------------------------
(* Claims about Create's removal and about Walk's return *)

\* the step is a Create that returns a handle
CreateReturnsHandle == ret'.op = "create" /\ ret'.err = Nil

\* no child of p's parent is called base(p)
NoneNamed(n, p) == Named(n, parentNode(n, p), Base(Norm(p))) = {}

\* C31: when Create(p) returns a handle, no child of p's parent is named
\* base(p) any more, be it a file or a directory with all beneath it: Stat(p)
\* and Stat of every path beneath p are not-found at once; and as long as the
\* handle is open and nothing else was called, Stat(p) stays not-found.
C31_CreateRemovesAtOnce ==
    /\ [](\A h \in 1 .. Len(files) :
             (~files[h].closed /\ hist[h].quiet) => NotFound(nodes, hist[h].cpath))
    /\ [][CreateReturnsHandle =>
             /\ NoneNamed(nodes', ret'.args[1])
             /\ \A q \in TreePaths :
                   AtOrBeneath(ret'.args[1], q) => NotFound(nodes', q)]_vars


\* C32: in every state the tree backend reaches by Create/Close, Mkdir, Move
\* and Remove, Walk started at the root makes finitely many calls of the
\* visitor and returns.
C32_WalkTerminates == ~Walk(nodes, <<>>, 1, NilVisitor).endless


\* the visitors: any set of nodes below the root to return an error for
Visitors(n) == SUBSET (DOMAIN n \ {Root})

\* the FileSystems Walk is called on: the backend and Subtrees made of it
\* at some time, whose directory may be gone by now
WalkChains ==
    { <<>>, << <<"a">> >>, << <<"a">>, <<"b">> >>, << <<"b">> >> }

\* the calls a walk made of the visitor, without what the visitor returned
Calls(w) == [k \in 1 .. Len(w.visits) |-> <<w.visits[k].chain, w.visits[k].node>>]

\* the places in the listing infos of the FileSystem's root that hold a
\* directory for which Subtree fails
SubtreeFails(n, chain, infos) ==
    {k \in 1 .. Len(infos) :
        /\ n[infos[k]].isDir
        /\ chainSubtree(n, chain, Str(n[infos[k]].name)).err # Nil}

\* the walk w returned the error of the Subtree for the entry at place k of
\* its listing, the last entry it visited itself
StoppedAt(n, chain, w, infos, k) ==
    /\ w.err = chainSubtree(n, chain, Str(n[infos[k]].name)).err
    /\ Len(w.visits) > 0
    /\ Calls(w)[Len(w.visits)] = <<chain, infos[k]>>
    /\ \A j \in (k + 1) .. Len(infos) :
          \A l \in VisitsOf(w, infos[j]) : w.visits[l].chain # chain

\* the walk w of the FileSystem chain returned an error for the reasons Walk
\* has, and nil without them
ReturnsOwnError(n, chain, w) ==
    With(chainReaddir(n, chain, <<".">>), LAMBDA rd :
        IF rd.err # Nil THEN w.err = rd.err /\ w.visits = <<>>
        ELSE IF SubtreeFails(n, chain, rd.infos) = {} THEN w.err = Nil
        ELSE StoppedAt(n, chain, w, rd.infos, Least(SubtreeFails(n, chain, rd.infos))))

\* Walk of chain with visitor walkFn does what it does with the nil visitor
SameWalk(n, chain, walkFn) ==
    With(Walk(n, chain, 1, walkFn), LAMBDA w :
        /\ Calls(w) = Calls(Walk(n, chain, 1, NilVisitor))
        /\ w.err = Walk(n, chain, 1, NilVisitor).err
        /\ w.endless = Walk(n, chain, 1, NilVisitor).endless
        /\ w.err.cause # ErrVisitor
        /\ ~w.endless => ReturnsOwnError(n, chain, w))

\* C33: whatever the visitor returns, Walk makes the same calls and returns
\* the same value, never the visitor's; a Walk that returns, returns the
\* error of its own Readdir(".") or of the first failing Subtree of an entry
\* of its own directory, after which it visits no further entry of it, and
\* nil otherwise, whatever the Walks of subdirectories returned.
C33_WalkErrors ==
    \A chain \in WalkChains : \A walkFn \in Visitors(nodes) :
        SameWalk(nodes, chain, walkFn)

\* Walk of the root returns the error of a Subtree and leaves a later entry
\* of the root unvisited, with a visitor that returned an error before
C33_Witness ==
    \E walkFn \in Visitors(nodes) :
        With(Walk(nodes, <<>>, 1, walkFn), LAMBDA w :
            /\ w.err # Nil
            /\ \E k \in 1 .. Len(w.visits) : w.visits[k].result # Nil
            /\ \E j \in 1 .. Entries(nodes, <<".">>) :
                  /\ j > Least(SubtreeFails(nodes, <<>>, Readdir(nodes, <<".">>).infos))
                  /\ VisitsOf(w, Readdir(nodes, <<".">>).infos[j]) = {})

====
